---------------------------- MODULE Spec2Model ----------------------------
(***************************************************************************)
(* A model of the docTR-Labeler annotation core: the dual coordinate       *)
(* space of a region (Polygon.pt_coords / Polygon.original_coords) under   *)
(* zoom, the tight-box refiner with its undo log, and the per-image        *)
(* snapshot save; with them the handlers of the window around it (the      *)
(* label and type entries, Go to Image, the clicks of a drawing), the      *)
(* loading of earlier annotation files, and the two functions that run     *)
(* outside a session, AutoLabeler.predict and prepare_data_folder; the     *)
(* mouse bindings of a region, Next and Prev with the Save/Dismiss pop-up, *)
(* and the file names of the snapshots.  Each part has a specification of  *)
(* its own further down.                                                   *)
(*                                                                         *)
(* Scale factors are the one-decimal floats of the source (0.5 .. 1.5      *)
(* with the default limits) and are written here in tenths (5 .. 15).      *)
(* Coordinates are floats in the source; a coordinate value is written     *)
(* <<"i", n, 10>> for the integer n,                                       *)
(* <<"q", n, k>> for the double n / s_k and <<"p", e, k>> for the double   *)
(* e * s_k, where s_k is the double nearest to k/10.  The operators below  *)
(* give the results IEEE-754 double arithmetic gives for coordinates       *)
(* 0 .. 32 and scale factors 0.5 .. 1.5.                                   *)
(***************************************************************************)
EXTENDS Integers, Sequences, FiniteSets

\* ------------------------------------------------------------------------
\* Bounds of the model
\* ------------------------------------------------------------------------

\* The largest number of regions held by the session at one time.
MaxPolys == 2

\* The number of Polygon objects created in one session (each gets a fresh id).
MaxIds == 3

\* The number of events (keys, clicks, timers) the main loop dispatches in one session.
MaxEvents == 5

\* The number of images in the opened folder (GUI.images_in_dir).
NumImages == 2

\* The longest list handed to the length check of save_json.
MaxLen == 2

\* prepare_data_folder: the files of a data folder
MaxFiles == 3

\* ------------------------------------------------------------------------
\* Program constants
\* ------------------------------------------------------------------------

\* zoom_step = 0.1, in tenths
zoom_step == 1

\* Maximum zoom capped at 2.0
zoom_cap == 20

\* Minimum zoom capped at 0.1
zoom_floor == 1

\* The scale factor of a new session and of a new Polygon: 1.0
unit_scale == 10

\* if w < 2 or h < 2: continue
min_rect_size == 2

\* size = (w + 2, h + 2)
expand_margin == 2

\* A region has 4 points.
NPts == 4

\* Width and height of the opened image (ImageOnCanvas.img_width, img_height).
img_width == 20

img_height == 20

\* ------------------------------------------------------------------------
\* Float arithmetic of the source
\* ------------------------------------------------------------------------

\* Scale factors k whose double s_k lies above k/10 (0.8, 0.9, 1.1, 1.3).
AboveTenth == {8, 9, 11, 13}

\* n / s_k with 10n divisible by k whose double is not the exact integer.
QuotInexact == { <<21,7>>, <<21,14>> }

\* (n, k, j): int((n / s_k) * s_j) is one below floor(n*j/k).
QuotMulLow ==
    { <<3,7,7>>, <<3,7,14>>, <<3,9,6>>, <<3,9,12>>, <<3,14,14>>, <<6,7,7>>,
      <<6,7,14>>, <<6,9,6>>, <<6,9,12>>, <<6,14,7>>, <<6,14,14>>, <<12,7,7>>,
      <<12,7,14>>, <<12,9,6>>, <<12,9,12>>, <<12,14,7>>, <<12,14,14>>, <<21,9,6>>,
      <<21,9,12>>, <<24,7,7>>, <<24,7,14>>, <<24,9,6>>, <<24,9,12>>, <<24,14,7>>,
      <<24,14,14>>, <<29,11,11>> }

\* (e, k): int((e * s_k) / s_k) is e - 1.
ProdDivLow ==
    { <<3,7>>, <<3,14>>, <<6,7>>, <<6,14>>, <<7,13>>, <<12,7>>, <<12,14>>, <<14,13>>,
      <<15,11>>, <<24,7>>, <<24,14>>, <<28,13>>, <<29,7>>, <<29,14>>, <<31,6>>, <<31,12>> }

\* (e, k): (e * s_k) // s_k is e - 1.
ProdFloorLow ==
    { <<3,6>>, <<3,7>>, <<3,12>>, <<3,14>>, <<5,9>>, <<5,11>>, <<5,13>>, <<6,6>>,
      <<6,7>>, <<6,12>>, <<6,14>>, <<7,7>>, <<7,9>>, <<7,13>>, <<7,14>>, <<9,6>>,
      <<9,8>>, <<9,9>>, <<9,11>>, <<9,12>>, <<11,6>>, <<11,7>>, <<11,12>>, <<11,14>>,
      <<12,6>>, <<12,7>>, <<12,12>>, <<12,14>>, <<13,8>>, <<13,11>>, <<14,7>>, <<14,9>>,
      <<14,13>>, <<14,14>>, <<15,9>>, <<15,11>>, <<15,13>>, <<17,6>>, <<17,7>>, <<17,12>>,
      <<17,14>>, <<18,6>>, <<18,8>>, <<18,9>>, <<18,11>>, <<18,12>>, <<19,7>>, <<19,13>>,
      <<19,14>>, <<21,8>>, <<21,11>>, <<21,13>>, <<22,6>>, <<22,7>>, <<22,12>>, <<22,14>>,
      <<23,6>>, <<23,7>>, <<23,9>>, <<23,11>>, <<23,12>>, <<23,14>>, <<24,6>>, <<24,7>>,
      <<24,12>>, <<24,14>>, <<25,9>>, <<25,13>>, <<26,8>>, <<26,11>>, <<27,6>>, <<27,7>>,
      <<27,12>>, <<27,14>>, <<28,7>>, <<28,9>>, <<28,13>>, <<28,14>>, <<29,6>>, <<29,7>>,
      <<29,11>>, <<29,12>>, <<29,14>>, <<31,6>>, <<31,8>>, <<31,11>>, <<31,12>> }

\* The integer n as a coordinate value.
IntVal(n) == <<"i", n, 10>>

\* n / s_k for an integer n.
Quot(n, k) ==
    IF (10 * n) % k = 0 /\ <<n, k>> \notin QuotInexact
    THEN IntVal((10 * n) \div k)
    ELSE <<"q", n, k>>

\* e * s_k for an integer e.
Prod(e, k) ==
    IF (e * k) % 10 = 0 THEN IntVal((e * k) \div 10) ELSE <<"p", e, k>>

\* v / s_k: only integer values are divided by the scale factor as floats.
TrueDiv(v, k) ==
    CASE v[1] = "i" -> Quot(v[2], k)

\* v * s_k without truncation.
TrueMul(v, k) ==
    CASE v[1] = "i" -> Prod(v[2], k)

\* int(v)
Trunc(v) ==
    CASE v[1] = "i" -> v[2]
      [] v[1] = "q" -> (10 * v[2]) \div v[3]
      [] v[1] = "p" -> (v[2] * v[3]) \div 10

\* int(v * s_j)
MulTrunc(v, j) ==
    CASE v[1] = "i" -> (v[2] * j) \div 10
      [] v[1] = "q" -> ((v[2] * j) \div v[3])
                         - (IF <<v[2], v[3], j>> \in QuotMulLow THEN 1 ELSE 0)

\* int(v / s_j)
DivTrunc(v, j) ==
    CASE v[1] = "i" -> (10 * v[2]) \div j
      [] v[1] = "p" /\ v[3] = j ->
             v[2] - (IF <<v[2], j>> \in ProdDivLow THEN 1 ELSE 0)

\* v // s_j (float floor division)
FloorDiv(v, j) ==
    CASE v[1] = "i" ->
             ((10 * v[2]) \div j)
               - (IF (10 * v[2]) % j = 0 /\ j \in AboveTenth /\ v[2] > 0 THEN 1 ELSE 0)
      [] v[1] = "p" /\ v[3] = j ->
             v[2] - (IF <<v[2], j>> \in ProdFloorLow THEN 1 ELSE 0)

\* A list of points with f applied to every coordinate.
MapPts(pts, f(_)) ==
    [i \in 1..Len(pts) |-> <<f(pts[i][1]), f(pts[i][2])>>]

\* A list of integer points as coordinate values.
IntPts(pts) == MapPts(pts, IntVal)


\* ------------------------------------------------------------------------
\* Inputs
\* ------------------------------------------------------------------------

\* The values of DOCTR_LABELER_MAX_ZOOM and DOCTR_LABELER_MIN_ZOOM in the
\* environment of the process, in hundredths: 1.05 and 0.9.  (With 1.1 for
\* 1.05 the same zoom steps are taken.)
ZoomEnvs ==
    { [DOCTR_LABELER_MAX_ZOOM |-> 105, DOCTR_LABELER_MIN_ZOOM |-> 90] }

\* Environments with limits beyond the cap and the floor of zoom, between
\* them, and off the steps of 0.1, in hundredths.
WideZoomEnvs ==
    [DOCTR_LABELER_MAX_ZOOM : {105, 150, 200, 300},
     DOCTR_LABELER_MIN_ZOOM : {-100, 0, 5, 10, 50, 90}]

\* The scale factors the float tables cover.
ScaleFactors == 5..15

\* Two quadrilaterals in image coordinates (a saved or predicted annotation).
QuadA == << <<4, 4>>, <<14, 4>>, <<14, 10>>, <<4, 10>> >>

QuadB == << <<6, 12>>, <<16, 12>>, <<16, 18>>, <<6, 18>> >>

QuadC == << <<2, 2>>, <<8, 2>>, <<8, 6>>, <<2, 6>> >>

\* An annotation of three regions.
ThreeRegions == { << QuadA, QuadB, QuadC >> }

\* The annotations load_json may find for the opened image.
InitialAnnotations == { <<>>, <<QuadA>> }

\* The polygons the predictor may return for the image.
Predictions == { <<QuadA, QuadB>> }

\* What the predictor may return for an image that has a region already.
LatePredictions == { <<QuadB>> }

\* The 4 canvas positions clicked while drawing a region.
DrawnQuads == { << <<3, 5>>, <<13, 5>>, <<13, 11>>, <<3, 11>> >> }

\* The canvas positions of a click while a region is drawn: inside the image
\* at every scale, inside it only when it is not zoomed out, right of it, and
\* left of it (a button released left of the canvas after a press inside it).
ClickPositions == { <<3, 5>>, <<19, 11>>, <<25, 5>>, <<-2, 5>> }

\* The canvas positions a point is dragged to, and the points that are dragged.
DragTargets == { <<11, 11>> }

DragPoints == {1}

\* The label texts the recogniser may return for a crop.
Texts == {"", "abc"}

\* GUI.type_options[0]
DefaultType == "words"

\* GUI.type_options: the entries of the type menu.
TypeOptions == {"words", "header"}

\* What may be typed into the label entry.
EnteredTexts == {"", "abc", " abc "}

\* What may stand in the jump entry when Go to Image is pressed.
JumpEntries == {"abc", "", "-1", "0", "1", "2", "3"}

\* What the cv2 calls of tight_box give for one selected polygon: an
\* exception (such as cv2.resize raising because cv2.imread could not read
\* the image file and returned None), no inner contour (no points are left
\* for cv2.minAreaRect), or a minimum-area rectangle of angle 0 with its
\* centre and size.
ErrOutcome == [kind |-> "error", c |-> <<0, 0>>, size |-> <<0, 0>>]

EmptyOutcome == [kind |-> "empty", c |-> <<0, 0>>, size |-> <<0, 0>>]

RectOutcome(c, size) == [kind |-> "rect", c |-> c, size |-> size]

\* No rectangle computed yet.
NoOutcome == [kind |-> "none", c |-> <<0, 0>>, size |-> <<0, 0>>]

\* Whether the cv2 calls raise: always when the image cannot be processed,
\* never for a rectangle; for an empty point set the build of OpenCV decides
\* between an assertion error and a rectangle of size zero.
MayRaise(o) ==
    IF o.kind = "error" THEN {TRUE}
    ELSE IF o.kind = "empty" THEN BOOLEAN
    ELSE {FALSE}

TightOutcomes ==
    { ErrOutcome, EmptyOutcome,
      RectOutcome(<<10, 8>>, <<1, 6>>), RectOutcome(<<10, 8>>, <<4, 4>>) }

\* ------------------------------------------------------------------------
\* State
\* ------------------------------------------------------------------------

VARIABLES
    scale_factor,          \* ImageOnCanvas.scale_factor, in tenths
    polygons,              \* ImageOnCanvas.polygons: the Polygon objects, in order
    current_saved,         \* ImageOnCanvas.current_saved
    drawing_polygon,       \* ImageOnCanvas.drawing_polygon
    auto_annotate_button,  \* state of GUI.auto_annotate_button
    tight_box_obj,         \* whether GUI.tight_box_obj holds a TightBox
    changed_poly,          \* TightBox.changed_poly of GUI.tight_box_obj
    canon_before,          \* history: original_coords of each recorded polygon when
                           \* its record was appended (the program keeps no such copy)
    next_id,               \* source of Polygon.polygon_id
    tb_thread,             \* the thread running TightBox.tight_box
    tb_pc,                 \* its position in tight_box
    tb_idx,                \* position of the list iterator of its for loop
    tb_pt,                 \* index of the point its inner loop updates next
    tb_p,                  \* polygon_id of its loop variable p
    events,                \* the events the main loop has dispatched
    tb_rect,               \* tight_box: what cv2 found under the polygon visited last
    tb_plan,               \* what cv2 computes for each polygon selected at the call
    tb_caller,             \* the handler that called make_tight
    environ,               \* os.environ: the two zoom limits
    curr_idx,              \* GUI.curr_idx: position of the image in images_in_dir
    buttons,               \* state of the buttons hide_buttons and show_buttons set
    progress_bar,          \* whether GUI.progress_bar is shown and running
    tight_box_cnv,         \* TightBox.cnv of GUI.tight_box_obj: GUI.img_cnv or an
                           \* ImageOnCanvas of an image shown before
    tmp_labels_dir,        \* whether the folder tmp_annotations exists
    tmp_annotations,       \* the snapshot files in tmp_annotations, each at the
                           \* position of the first image saved under its name
    tmp_keys,              \* the image each snapshot file is keyed by (img_name)
    images_in_dir,         \* GUI.images_in_dir: the file name of each image
    labels_json,           \* the file labels.json
    export_lens,           \* save_json: len(filtered_polygons), len(labels), len(types)
    saving_path,           \* what the last call of save_json returned or raised
    last_call,             \* history: the last handler, when it was delete_selected
                           \* or discard_tight, with what it found
    last_selected_polygon, \* GUI.last_selected_polygon: a polygon_id, 0 while the
                           \* attribute is not set
    notice,                \* the text of the last GUI.pop_up
    drawing_obj,           \* the DrawPoly whose draw_point is bound to the canvas
    save_image_button,     \* state of the Save button
    json_res,              \* AutoLabeler.predict: the export of the predictor
    objectness_threshold,  \* AutoLabeler.objectness_threshold, in hundredths
    predicted,             \* what AutoLabeler.predict returned
    data_folder,           \* prepare_data_folder: the folder of input files
    save_folder,           \* prepare_data_folder: the folder images next to it
    prepared,              \* what prepare_data_folder returned or raised
    prior,                 \* load_json: whether the snapshot file and
                           \* pre_annotations.json can be read
    pressed_poly,          \* the polygon_id of the polygon button 1 was pressed on
                           \* and is still held on, 0 for none
    prev_img_button,       \* state of the Prev button
    image_name,            \* GUI.image_name: position of the image to load
    image_path,            \* ImageOnCanvas.image_path of GUI.img_cnv: position of
                           \* the image whose session is open
    save_msgs,             \* the open pop-ups that offer Save and Dismiss
    tb_selected            \* history: the polygons selected when make_tight was
                           \* called last, by polygon_id, as they were then

vars ==
    << scale_factor, polygons, current_saved, drawing_polygon, auto_annotate_button,
       tight_box_obj, changed_poly, canon_before, next_id,
       tb_thread, tb_pc, tb_idx, tb_pt, tb_p, tb_rect, tb_plan, tb_caller, events,
       environ, curr_idx, buttons, progress_bar, tight_box_cnv, tmp_labels_dir,
       tmp_annotations, tmp_keys, images_in_dir, labels_json, export_lens,
       saving_path, last_call,
       last_selected_polygon, notice, drawing_obj, save_image_button,
       json_res, objectness_threshold, predicted, data_folder, save_folder, prepared,
       prior, pressed_poly, prev_img_button, image_name, image_path, save_msgs,
       tb_selected >>

\* What the handlers of the widgets keep in the GUI object.
ui_vars == << last_selected_polygon, pressed_poly, notice, drawing_obj, save_image_button >>

\* The inputs and results of the functions that run outside a session.
lib_vars ==
    << json_res, objectness_threshold, predicted, data_folder, save_folder, prepared,
       prior >>

\* What only a save or the end of the folder changes.
disk_vars ==
    << tmp_labels_dir, tmp_annotations, tmp_keys, labels_json, export_lens, saving_path >>

\* What only the change of image changes.
nav_vars ==
    << environ, images_in_dir, curr_idx, prev_img_button, image_name, image_path,
       save_msgs >>

\* The snapshot file of the image shown.
tmp_file == tmp_annotations[image_path]

\* No handler to remember.
NoCall == [op |-> "none", n |-> 0]

\* The variables of a running tight_box call.
tb_vars == << tb_thread, tb_pc, tb_idx, tb_pt, tb_p, tb_rect, tb_plan, tb_caller >>

\* No snapshot file written yet.
NoFile == [polygons |-> <<>>, labels |-> <<>>, types |-> <<>>, written |-> FALSE]

\* The names the images of the folder have unless said otherwise.  A file
\* name is the sequence of its parts between the dots.
Stems == << "page1", "page2", "page3", "page4" >>

ImagesInDir == [i \in 0..(NumImages - 1) |-> << Stems[i + 1], "png" >>]

\* save_json: img_name.split(".")[0] + ".json", the name up to its first dot.
json_file_path(img_name) == << img_name[1], "json" >>

\* load_json: os.path.splitext(img_name)[0] + ".json", the name without its
\* last extension.
temp_annotation_file(img_name) ==
    IF Len(img_name) > 1
    THEN Append(SubSeq(img_name, 1, Len(img_name) - 1), "json")
    ELSE Append(img_name, "json")

\* Where tmp_annotations keeps the file of this name: at the position of the
\* first image that save_json writes it for; -1 for a name save_json gives
\* to no image of the folder.
file_slot(images, file_name) ==
    IF \E q \in DOMAIN images : json_file_path(images[q]) = file_name
    THEN CHOOSE q \in DOMAIN images :
            /\ json_file_path(images[q]) = file_name
            /\ \A r \in DOMAIN images :
                  json_file_path(images[r]) = file_name => q <= r
    ELSE -1

\* load_json: the file temp_annotation_file names for the image at position
\* p, and of it temp_annotations.get(img_name, {}).  A file keyed by another
\* name is a dict that is not empty and has nothing for this image.
temp_annotations(images, files, keys, p) ==
    LET slot == file_slot(images, temp_annotation_file(images[p])) IN
        IF slot = -1
        THEN NoFile
        ELSE IF files[slot].written /\ keys[slot] # p
        THEN [NoFile EXCEPT !.written = TRUE]
        ELSE files[slot]

\* Where save_json writes the snapshot file of the image shown.
json_slot == file_slot(images_in_dir, json_file_path(images_in_dir[image_path]))

\* The main thread is not inside a synchronous call of tight_box.
MainFree == tb_thread # "main"

\* The main loop dispatches one more event to its handler.
Dispatch ==
    /\ MainFree
    /\ events < MaxEvents
    /\ events' = events + 1

\* Positions of the polygon list.
Indices == 1..Len(polygons)

\* ------------------------------------------------------------------------
\* Polygon
\* ------------------------------------------------------------------------

\* Polygon.__init__: both coordinate lists start as pts, the polygon's own
\* scale_factor as 1.0.
NewPolygon(id, pts, poly_type, text) ==
    [ polygon_id |-> id,
      pt_coords |-> pts,
      original_coords |-> pts,
      scale_factor |-> unit_scale,
      select_poly |-> FALSE,
      down_inside_poly |-> FALSE,
      poly_type |-> poly_type,
      text |-> text ]

\* Polygon.update_polygon: both lists are truncated to integers.
update_polygon(p) ==
    [p EXCEPT !.pt_coords = MapPts(p.pt_coords, LAMBDA v : IntVal(Trunc(v))),
              !.original_coords = MapPts(p.original_coords, LAMBDA v : IntVal(Trunc(v)))]

\* Polygon.update_point(point i, x, y, update_original): x and y are floats.
update_point(p, i, x, y, update_original) ==
    [p EXCEPT !.pt_coords[i] = <<x, y>>,
              !.original_coords[i] =
                  IF update_original
                  THEN << IntVal(DivTrunc(x, p.scale_factor)),
                          IntVal(DivTrunc(y, p.scale_factor)) >>
                  ELSE @]

\* Polygon.select_polygon and Polygon.deselect_poly
select_polygon(p) == [p EXCEPT !.select_poly = TRUE]

deselect_poly(p) ==
    IF p.select_poly
    THEN [p EXCEPT !.select_poly = FALSE, !.down_inside_poly = FALSE]
    ELSE p

\* Polygon.down_poly, as far as the polygon itself goes.
down_poly(p) == [p EXCEPT !.down_inside_poly = TRUE]

\* A release that turns select_poly over whether or not the press was inside.
chkup_poly_any_release(p) ==
    [p EXCEPT !.select_poly = ~@, !.down_inside_poly = FALSE]

\* Polygon.chkup_poly
chkup_poly(p) ==
    IF p.down_inside_poly
    THEN [p EXCEPT !.select_poly = ~@, !.down_inside_poly = FALSE]
    ELSE [p EXCEPT !.down_inside_poly = FALSE]

\* Polygon.leave_poly, as far as the polygon itself goes.
leave_poly(p) == [p EXCEPT !.down_inside_poly = FALSE]


\* ------------------------------------------------------------------------
\* ImageOnCanvas
\* ------------------------------------------------------------------------

\* ImageOnCanvas.apply_zoom for one polygon at scale factor sf: the display
\* points are computed from original_coords, then update_polygon runs.
apply_zoom(p, sf) ==
    update_polygon(
        [p EXCEPT !.scale_factor = sf,
                  !.pt_coords = MapPts(p.original_coords,
                                       LAMBDA v : IntVal(MulTrunc(v, sf)))])

\* max_zoom = min(float(os.environ.get("DOCTR_LABELER_MAX_ZOOM", 1.5)), 2.0),
\* in hundredths
max_zoom ==
    IF environ.DOCTR_LABELER_MAX_ZOOM < 10 * zoom_cap
    THEN environ.DOCTR_LABELER_MAX_ZOOM
    ELSE 10 * zoom_cap

\* The lower limit as the environment gives it, without the floor of 0.1.
min_zoom_of_environ == environ.DOCTR_LABELER_MIN_ZOOM

\* min_zoom = max(float(os.environ.get("DOCTR_LABELER_MIN_ZOOM", 0.5)), 0.1),
\* in hundredths
min_zoom ==
    IF environ.DOCTR_LABELER_MIN_ZOOM > 10 * zoom_floor
    THEN environ.DOCTR_LABELER_MIN_ZOOM
    ELSE 10 * zoom_floor

\* The scale factor ImageOnCanvas.zoom leaves for a key.
zoom(sf, keysym) ==
    IF keysym = "plus"
    THEN (IF 10 * sf < max_zoom THEN sf + zoom_step ELSE sf)
    ELSE (IF 10 * sf > min_zoom THEN sf - zoom_step ELSE sf)

\* ImageOnCanvas.draw_polys: the polygon list after coords (image coordinates)
\* are added at scale factor sf, the new polygons taking ids from id on.
draw_polys(polys, coords, poly_types, poly_texts, sf, id) ==
    LET scaled_coords ==
            [n \in 1..Len(coords) |->
                MapPts(IntPts(coords[n]), LAMBDA v : IntVal(MulTrunc(v, sf)))]
        extended ==
            polys \o [n \in 1..Len(coords) |->
                        NewPolygon(id + n - 1, scaled_coords[n],
                                   poly_types[n], poly_texts[n])]
    IN  [n \in 1..Len(extended) |->
            [extended[n] EXCEPT
                !.original_coords =
                    MapPts(extended[n].pt_coords,
                           LAMBDA v : IntVal(FloorDiv(v, sf)))]]

\* ImageOnCanvas.add_poly: pts are float image coordinates.
add_poly(polys, pts, sf, id) ==
    LET scaled_pts == MapPts(pts, LAMBDA v : IntVal(MulTrunc(v, sf)))
        polygon == NewPolygon(id, scaled_pts, DefaultType, "")
    IN  Append(polys, [polygon EXCEPT !.original_coords = pts])

\* The polygon list ImageOnCanvas.save_json writes for one polygon.
SavedPolygon(p, sf) == MapPts(p.pt_coords, LAMBDA v : IntVal(FloorDiv(v, sf)))

\* ImageOnCanvas.save_json: the snapshot file after the call.
save_json(polys, sf, file) ==
    IF Len(polys) = 0
    THEN file
    ELSE [ polygons |-> [n \in 1..Len(polys) |-> SavedPolygon(polys[n], sf)],
           labels |-> [n \in 1..Len(polys) |-> polys[n].text],
           types |-> [n \in 1..Len(polys) |-> polys[n].poly_type],
           written |-> TRUE ]

\* A list of val repeated n times.
Repeat(val, n) == [i \in 1..n |-> val]

\* The length check of save_json:
\* if len(filtered_polygons) != len(labels) != len(types): raise ValueError
length_mismatch(lens) == lens[1] # lens[2] /\ lens[2] # lens[3]

\* save_json without its test for an empty list of polygons.
save_json_result_unchecked(lens) ==
    IF length_mismatch(lens) THEN "ValueError" ELSE "path"

\* What save_json returns or raises for lists of the lengths lens: the
\* ValueError, the message that there is nothing to save, or the path of
\* the file it wrote.
save_json_result(lens) ==
    IF length_mismatch(lens) THEN "ValueError"
    ELSE IF lens[1] = 0 THEN "nothing to save"
    ELSE "path"

\* A snapshot file with no polygons, left in tmp_annotations by an earlier run.
EmptySnapshot == [polygons |-> <<>>, labels |-> <<>>, types |-> <<>>, written |-> TRUE]

\* The files tmp_annotations may hold for an image not opened yet.
EarlierSnapshots == { NoFile, EmptySnapshot }

\* A snapshot file with one labelled polygon, left by an earlier run.
SnapshotB ==
    [polygons |-> << IntPts(QuadB) >>, labels |-> << "abc" >>, types |-> << "header" >>,
     written |-> TRUE]

\* What an earlier run may have left in tmp_annotations for the images.
PriorFiles == [0..(NumImages - 1) -> { NoFile, EmptySnapshot, SnapshotB }]

\* labels.json before final_save wrote it.
NoLabels == [written |-> FALSE, data |-> {}]

\* data.update(tmp_annotation): the entry of the image name img is replaced.
update(data, img, file) ==
    { e \in data : e.img # img } \cup { [img |-> img, content |-> file] }

\* final_save without its test for polygons: every file is merged.
RECURSIVE final_save_all(_, _, _)
final_save_all(files, i, data) ==
    IF i >= NumImages
    THEN data
    ELSE final_save_all(files, i + 1,
                        IF files[i].written THEN update(data, i, files[i]) ELSE data)

\* ImageOnCanvas.final_save: the data collected from the files i, i + 1, ...
\* of tmp_annotations.
RECURSIVE final_save(_, _, _)
final_save(files, i, data) ==
    IF i >= NumImages
    THEN data
    ELSE final_save(files, i + 1,
                    IF files[i].written /\ Len(files[i].polygons) > 0
                    THEN update(data, i, files[i])
                    ELSE data)

\* The integer points of a list of coordinate values read from a file.
RawPts(pts) == [i \in 1..Len(pts) |-> << Trunc(pts[i][1]), Trunc(pts[i][2]) >>]

\* json.load inside try / except Exception: what the dictionary holds after
\* it, content for a file that can be read, nothing for one that cannot (the
\* dictionary is left empty and a warning is logged).
read_json(how, content, nothing) == IF how = "readable" THEN content ELSE nothing

\* load_json with the entry of pre_annotations.json taken first.
load_json_pre_first(file, ann, id) ==
    IF Len(ann) = 0 /\ file.written
    THEN draw_polys(<<>>, [n \in 1..Len(file.polygons) |-> RawPts(file.polygons[n])],
                    file.types, file.labels, unit_scale, id)
    ELSE draw_polys(<<>>, ann, Repeat(DefaultType, Len(ann)),
                    Repeat("", Len(ann)), unit_scale, id)

\* ImageOnCanvas.load_json: the polygons of a new session for the image
\* whose snapshot file is file and whose entry of pre_annotations.json is ann
\* (NoFile and the empty list for what is missing or was not read).
load_json(file, ann, id) ==
    IF file.written
    THEN draw_polys(<<>>, [n \in 1..Len(file.polygons) |-> RawPts(file.polygons[n])],
                    file.types, file.labels, unit_scale, id)
    ELSE draw_polys(<<>>, ann, Repeat(DefaultType, Len(ann)),
                    Repeat("", Len(ann)), unit_scale, id)

\* ------------------------------------------------------------------------
\* The label and type of the polygon clicked last
\* ------------------------------------------------------------------------

\* str.strip on the texts of the model: " abc " is the one with whitespace
\* around it.
strip(text) == IF text = " abc " THEN "abc" ELSE text

\* The position in polys of the polygon with the given id, 0 for none (as
\* PosOf below; ids start at 1, so the id 0 of the unset attribute finds none).
LastSelected(polys, id) ==
    IF \E n \in 1..Len(polys) : polys[n].polygon_id = id
    THEN CHOOSE n \in 1..Len(polys) : polys[n].polygon_id = id
    ELSE 0

\* The test of the listeners without its second half.
label_applies_to_any(polys, id) == LastSelected(polys, id) # 0

\* if last_selected_polygon and last_selected_polygon.select_poly
label_applies(polys, id) ==
    LastSelected(polys, id) # 0 /\ polys[LastSelected(polys, id)].select_poly

\* GUI.save_label, the listener of label_variable: polys after value was
\* written to the variable.
save_label(polys, id, value) ==
    IF label_applies(polys, id)
    THEN [polys EXCEPT ![LastSelected(polys, id)].text = strip(value)]
    ELSE polys

\* GUI.save_type, the listener of type_variable.
save_type(polys, id, value) ==
    IF label_applies(polys, id)
    THEN [polys EXCEPT ![LastSelected(polys, id)].poly_type = strip(value)]
    ELSE polys

\* label_variable.set(text) followed by type_variable.set(poly_type), as the
\* handlers do that reset or show the two entries.
set_variables(polys, id, text, poly_type) ==
    save_type(save_label(polys, id, text), id, poly_type)

\* ------------------------------------------------------------------------
\* DrawPoly
\* ------------------------------------------------------------------------

\* A DrawPoly after DrawPoly.__init__ (held: GUI.drawing_obj refers to it),
\* and the canvas before the first DrawPoly was made.  A point widget is
\* written as the position it was made at.
NewDrawPoly == [points |-> <<>>, pt_coords |-> <<>>, held |-> TRUE]

NoDrawPoly == [points |-> <<>>, pt_coords |-> <<>>, held |-> FALSE]

\* DrawPoly.delete_self and drawing_obj = None: pt_coords is cleared, the
\* list points is left as it is.
delete_self(obj) == [obj EXCEPT !.pt_coords = <<>>, !.held = FALSE]

\* ------------------------------------------------------------------------
\* Outside a session
\* ------------------------------------------------------------------------

\* float(os.environ.get("OBJECTNESS_THRESHOLD", 0.5)), in hundredths
default_threshold == 50

\* The other value given to OBJECTNESS_THRESHOLD: 0.8
high_threshold == 80

\* Relative coordinates are counted in eighths, so that their products with
\* the sizes of a page are exact as floats.
rel_unit == 8

\* page["dimensions"] of the first and the second page: (h, w)
Dimensions == << <<10, 20>>, <<12, 8>> >>

\* word["geometry"]: two straight boxes (xmin, ymin), (xmax, ymax) and a
\* polygon of four points, in eighths.
Geometries ==
    { << <<1, 2>>, <<6, 7>> >>,
      << <<3, 1>>, <<8, 8>> >>,
      << <<1, 1>>, <<7, 2>>, <<6, 7>>, <<3, 6>> >> }

\* The words of an export: the k-th has the value of position k, and an
\* objectness score in hundredths.
Words(k) ==
    [value : { << "w1", "w2", "w3" >>[k] }, objectness_score : { 50, 80, 81, 90 },
     geometry : Geometries]

\* The exports res.export() of the predictor for three words: in one line,
\* in two lines, in two blocks, on two pages, and after an empty block and
\* an empty line.
Exports ==
    LET Line(ws) == [words |-> ws]
        Block(ls) == [lines |-> ls]
        Page(k, bs) == [dimensions |-> Dimensions[k], blocks |-> bs]
    IN
    UNION { { [pages |-> << Page(1, << Block(<< Line(<< w1, w2, w3 >>) >>) >>) >>],
              [pages |-> << Page(1, << Block(<< Line(<< w1 >>), Line(<< w2, w3 >>) >>) >>) >>],
              [pages |-> << Page(1, << Block(<< Line(<< w1, w2 >>) >>),
                                       Block(<< Line(<< w3 >>) >>) >>) >>],
              [pages |-> << Page(1, << Block(<< Line(<< w1 >>) >>) >>),
                            Page(2, << Block(<< Line(<< w2 >>), Line(<< w3 >>) >>) >>) >>],
              [pages |-> << Page(2, << Block(<< >>),
                                       Block(<< Line(<< >>), Line(<< w1, w2, w3 >>) >>) >>) >>] }
            : w1 \in Words(1), w2 \in Words(2), w3 \in Words(3) }

\* int(round(dim * x)) for x = n / 8: Python rounds a half to the even
\* neighbour.
int_round(dim, n) ==
    LET q == (dim * n) \div rel_unit
        r == (dim * n) % rel_unit
    IN  IF 2 * r < rel_unit THEN q
        ELSE IF 2 * r > rel_unit THEN q + 1
        ELSE IF q % 2 = 0 THEN q ELSE q + 1

\* int(x * dim) for x = n / 8
int_trunc(n, dim) == (n * dim) \div rel_unit

\* _to_absolute with h and w taken in the other order.
to_absolute_w_h(geom, img_shape) ==
    LET w == img_shape[1]
        h == img_shape[2]
    IN  IF Len(geom) = 2
        THEN LET xmin == int_round(w, geom[1][1])
                 xmax == int_round(w, geom[2][1])
                 ymin == int_round(h, geom[1][2])
                 ymax == int_round(h, geom[2][2])
             IN  << <<xmin, ymin>>, <<xmax, ymin>>, <<xmax, ymax>>, <<xmin, ymax>> >>
        ELSE [i \in 1..Len(geom) |->
                 << int_trunc(geom[i][1], w), int_trunc(geom[i][2], h) >>]

\* AutoLabeler._to_absolute
to_absolute(geom, img_shape) ==
    LET h == img_shape[1]
        w == img_shape[2]
    IN  IF Len(geom) = 2
        THEN LET xmin == int_round(w, geom[1][1])
                 xmax == int_round(w, geom[2][1])
                 ymin == int_round(h, geom[1][2])
                 ymax == int_round(h, geom[2][2])
             IN  << <<xmin, ymin>>, <<xmax, ymin>>, <<xmax, ymax>>, <<xmin, ymax>> >>
        ELSE [i \in 1..Len(geom) |->
                 << int_trunc(geom[i][1], w), int_trunc(geom[i][2], h) >>]

\* The test of a word with >= for >.
passes_or_equals(word, threshold) == word.objectness_score >= threshold

\* if word["objectness_score"] > self.objectness_threshold
passes(word, threshold) == word.objectness_score > threshold

\* The body of the innermost loop of predict: out is the pair of lists.
visit_word(out, word, shape, threshold) ==
    IF passes(word, threshold)
    THEN [out EXCEPT !.polygons = Append(@, to_absolute(word.geometry, shape)),
                     !.texts = Append(@, word.value)]
    ELSE out

\* for word in line["words"]
RECURSIVE for_words(_, _, _, _)
for_words(out, words, shape, threshold) ==
    IF words = <<>>
    THEN out
    ELSE for_words(visit_word(out, Head(words), shape, threshold),
                   Tail(words), shape, threshold)

\* for line in block["lines"]
RECURSIVE for_lines(_, _, _, _)
for_lines(out, lines, shape, threshold) ==
    IF lines = <<>>
    THEN out
    ELSE for_lines(for_words(out, Head(lines).words, shape, threshold),
                   Tail(lines), shape, threshold)

\* for block in page["blocks"]
RECURSIVE for_blocks(_, _, _, _)
for_blocks(out, blocks, shape, threshold) ==
    IF blocks = <<>>
    THEN out
    ELSE for_blocks(for_lines(out, Head(blocks).lines, shape, threshold),
                    Tail(blocks), shape, threshold)

\* for page in json_res["pages"]
RECURSIVE for_pages(_, _, _)
for_pages(out, pages, threshold) ==
    IF pages = <<>>
    THEN out
    ELSE for_pages(for_blocks(out, Head(pages).blocks, Head(pages).dimensions, threshold),
                   Tail(pages), threshold)

\* predict was not called.
NoPrediction == [returned |-> FALSE, polygons |-> <<>>, texts |-> <<>>]

\* AutoLabeler.predict on the export res of the predictor.
predict(res, threshold) ==
    LET out == for_pages([polygons |-> <<>>, texts |-> <<>>], res.pages, threshold)
    IN  [returned |-> TRUE, polygons |-> out.polygons, texts |-> out.texts]

NoPredict ==
    /\ json_res = [pages |-> <<>>]
    /\ objectness_threshold = default_threshold
    /\ predicted = NoPrediction

\* The files os.listdir may find in the data folder: a PDF of two pages, an
\* image, an image with its extension in capitals, a file of another type, a
\* PDF that DocumentFile.from_pdf cannot read, and a PDF whose second page
\* cannot be saved.
DataFiles ==
    { [name |-> "file1.pdf", ext |-> ".pdf", pages |-> 2, raises |-> "never"],
      [name |-> "file2.jpg", ext |-> ".jpg", pages |-> 1, raises |-> "never"],
      [name |-> "file3.PNG", ext |-> ".PNG", pages |-> 1, raises |-> "never"],
      [name |-> "unsupported.txt", ext |-> ".txt", pages |-> 1, raises |-> "never"],
      [name |-> "broken.pdf", ext |-> ".pdf", pages |-> 2, raises |-> "from_pdf"],
      [name |-> "half.pdf", ext |-> ".pdf", pages |-> 2, raises |-> "second page"] }

\* The listings of a data folder: up to MaxFiles files, no name twice.
Listings ==
    { files \in UNION { [1..n -> DataFiles] : n \in 0..MaxFiles } :
        \A i, j \in 1..Len(files) : i # j => files[i] # files[j] }

\* file.lower() for the extensions of DataFiles.
lower(ext) == IF ext = ".PNG" THEN ".png" ELSE ext

\* The body of the loop for one file: images is the set of PNG files in the
\* save folder, one for every page converted before an exception, if any, is
\* raised (the name is the hash of the page, here the file and the page).
process_file(images, file) ==
    IF lower(file.ext) \in { ".pdf", ".jpg", ".jpeg", ".png" }
    THEN CASE file.raises = "never" ->
                 images \cup { << file.name, k >> : k \in 1..file.pages }
           [] file.raises = "from_pdf" -> images
           [] file.raises = "second page" -> images \cup { << file.name, 1 >> }
    ELSE images

\* The loop with one try around all of it: the first exception ends it.
RECURSIVE for_files_one_try(_, _)
for_files_one_try(images, files) ==
    IF files = <<>>
    THEN images
    ELSE IF Head(files).raises # "never" /\ lower(Head(files).ext) = ".pdf"
    THEN process_file(images, Head(files))
    ELSE for_files_one_try(process_file(images, Head(files)), Tail(files))

\* for file in os.listdir(data_folder): try ... except Exception
RECURSIVE for_files(_, _)
for_files(images, files) ==
    IF files = <<>>
    THEN images
    ELSE for_files(process_file(images, Head(files)), Tail(files))

\* prepare_data_folder with os.makedirs(save_folder, exist_ok=True) for the
\* test of the save folder.
prepare_data_folder_exist_ok(data, save) ==
    IF ~data.exists
    THEN [raised |-> "FileNotFoundError", returned |-> "none", save_folder |-> save]
    ELSE [raised |-> "none", returned |-> "images",
          save_folder |-> [exists |-> TRUE,
                           images |-> for_files(save.images, data.files)]]

\* prepare_data_folder: what it raises or returns, and the save folder after
\* it, for the data folder data and the folder 'images' next to it.
prepare_data_folder(data, save) ==
    IF ~data.exists
    THEN [raised |-> "FileNotFoundError", returned |-> "none", save_folder |-> save]
    ELSE IF save.exists
    THEN [raised |-> "FileExistsError", returned |-> "none", save_folder |-> save]
    ELSE [raised |-> "none", returned |-> "images",
          save_folder |-> [exists |-> TRUE,
                           images |-> for_files({}, data.files)]]

\* prepare_data_folder was not called.
NoPrepare ==
    /\ data_folder = [exists |-> FALSE, files |-> <<>>]
    /\ save_folder = [exists |-> FALSE, images |-> {}]
    /\ prepared = [raised |-> "none", returned |-> "none"]

\* Every annotation file that exists can be read.
ReadablePrior == prior = [tmp |-> "readable", pre |-> "readable"]

\* ------------------------------------------------------------------------
\* Initial state: ImageOnCanvas.__init__ with load_json at scale factor 1.0
\* ------------------------------------------------------------------------

\* The session of the first image, with whatever lengths the length check
\* of save_json is to see.
InitOpen(images, annotations, envs, files, priors) ==
    /\ scale_factor = unit_scale
    /\ images_in_dir \in images
    /\ tmp_keys = [i \in 0..(NumImages - 1) |-> i]
    /\ environ \in envs
    /\ last_selected_polygon = 0
    /\ notice = "none"
    /\ drawing_obj = NoDrawPoly
    /\ save_image_button = "disabled"
    /\ curr_idx = 0
    /\ pressed_poly = 0
    /\ prev_img_button = "disabled"
    /\ image_name = 0
    /\ image_path = 0
    /\ save_msgs = 0
    /\ tmp_annotations \in files
    /\ tmp_labels_dir = (\E i \in 0..(NumImages - 1) : tmp_annotations[i].written)
    /\ prior \in priors
    /\ \E ann \in annotations :
          /\ polygons = load_json(read_json(prior.tmp,
                                            temp_annotations(images_in_dir,
                                                tmp_annotations, tmp_keys, 0),
                                            NoFile),
                                  read_json(prior.pre, ann, <<>>), 1)
          /\ next_id = Len(polygons) + 1
          /\ auto_annotate_button = IF Len(polygons) > 0 THEN "disabled" ELSE "normal"
    /\ buttons = "normal"
    /\ progress_bar = FALSE
    /\ tight_box_cnv = "none"
    /\ labels_json = NoLabels
    /\ saving_path = "none"
    /\ last_call = NoCall
    /\ current_saved = TRUE
    /\ drawing_polygon = FALSE
    /\ tight_box_obj = FALSE
    /\ changed_poly = <<>>
    /\ tb_selected = <<>>
    /\ canon_before = <<>>
    /\ tb_thread = "none"
    /\ tb_pc = "idle"
    /\ tb_idx = 0
    /\ tb_pt = 0
    /\ tb_p = 0
    /\ tb_plan = <<>>
    /\ tb_rect = NoOutcome
    /\ events = 0
    /\ tb_caller = "none"

\* The session of the first image in a folder with the usual names.
InitFrom(annotations, envs, files, priors) ==
    InitOpen({ImagesInDir}, annotations, envs, files, priors)

\* The first image has no snapshot file, the last one may have an empty one,
\* and every file can be read.
InitWith(annotations, envs) ==
    InitFrom(annotations, envs,
             { [i \in 0..(NumImages - 1) |-> IF i = NumImages - 1 THEN earlier ELSE NoFile] :
                  earlier \in EarlierSnapshots },
             { [tmp |-> "readable", pre |-> "readable"] })

InitSession(annotations) == InitWith(annotations, ZoomEnvs)

Init ==
    /\ InitSession(InitialAnnotations)
    /\ export_lens = << 0, 0, 0 >>
    /\ NoPredict
    /\ NoPrepare
    /\ ReadablePrior

\* ------------------------------------------------------------------------
\* Handlers of the main thread
\* ------------------------------------------------------------------------

\* ImageOnCanvas.zoom for a key.
zoom_event(keysym) ==
    /\ last_call' = NoCall
    /\ UNCHANGED << buttons, progress_bar, tight_box_cnv >>
    /\ LET sf == zoom(scale_factor, keysym) IN
          /\ scale_factor' = sf
          /\ polygons' = IF sf # scale_factor
                         THEN [n \in Indices |-> apply_zoom(polygons[n], sf)]
                         ELSE polygons
    /\ UNCHANGED << current_saved, drawing_polygon, auto_annotate_button,
                    tight_box_obj, changed_poly, tb_selected, canon_before, disk_vars, nav_vars, ui_vars, lib_vars, next_id, tb_vars >>

\* ImageOnCanvas.zoom on Control-plus / Control-minus.
Zoom(keysym) ==
    /\ Dispatch
    /\ zoom_event(keysym)

\* The same handler in a session in which only the zoom keys are pressed, as
\* often as one likes.
ZoomKey(keysym) ==
    /\ MainFree
    /\ UNCHANGED events
    /\ zoom_event(keysym)

\* Polygon.motion: point i of the polygon at position n is dragged to (x, y).
Motion(n, i, x, y) ==
    /\ Dispatch
    /\ last_call' = NoCall
    /\ UNCHANGED << buttons, progress_bar, tight_box_cnv >>
    /\ n \in Indices
    /\ polygons' = [polygons EXCEPT ![n] =
                       update_polygon(update_point(@, i, IntVal(x), IntVal(y), TRUE))]
    /\ UNCHANGED << scale_factor, current_saved, drawing_polygon, auto_annotate_button,
                    tight_box_obj, changed_poly, tb_selected, canon_before, disk_vars, nav_vars, ui_vars, lib_vars, next_id, tb_vars >>

\* The call of ImageOnCanvas.save_json for the session shown: the folder is
\* made, the three lists are built from the polygons, and the file is written
\* unless the length check raises or there is nothing to save.
call_save_json(polys) ==
    LET lens == << Len(polys), Len(polys), Len(polys) >>
        result == save_json_result(lens)
    IN  /\ export_lens' = lens
        /\ saving_path' = result
        /\ tmp_labels_dir' = TRUE
        /\ tmp_annotations' =
               IF result = "path"
               THEN [tmp_annotations EXCEPT
                        ![json_slot] = save_json(polys, scale_factor, @)]
               ELSE tmp_annotations
        /\ tmp_keys' =
               IF result = "path"
               THEN [tmp_keys EXCEPT ![json_slot] = image_path]
               ELSE tmp_keys

\* GUI.saver: save_json, then current_saved; the ValueError of save_json
\* ends the handler before that.
saver ==
    /\ call_save_json(polygons)
    /\ current_saved' = IF saving_path' = "ValueError" THEN current_saved ELSE TRUE

\* GUI.saver on Control-s.
Saver ==
    /\ Dispatch
    /\ last_call' = NoCall
    /\ saver
    /\ save_image_button' = "disabled"
    /\ UNCHANGED << scale_factor, polygons, drawing_polygon, auto_annotate_button,
                    tight_box_obj, changed_poly, tb_selected, canon_before, next_id, tb_vars,
                    labels_json, nav_vars, last_selected_polygon, pressed_poly, notice, drawing_obj, lib_vars, buttons, progress_bar, tight_box_cnv >>

\* GUI.select_all and GUI.deselect_all
SelectAll ==
    /\ Dispatch
    /\ last_call' = NoCall
    /\ UNCHANGED << buttons, progress_bar, tight_box_cnv >>
    /\ polygons' = [n \in Indices |-> select_polygon(polygons[n])]
    /\ UNCHANGED << scale_factor, current_saved, drawing_polygon, auto_annotate_button,
                    tight_box_obj, changed_poly, tb_selected, canon_before, disk_vars, nav_vars, ui_vars, lib_vars, next_id, tb_vars >>

DeselectAll ==
    /\ Dispatch
    /\ last_call' = NoCall
    /\ UNCHANGED << buttons, progress_bar, tight_box_cnv >>
    /\ polygons' = [n \in Indices |-> deselect_poly(polygons[n])]
    /\ UNCHANGED << scale_factor, current_saved, drawing_polygon, auto_annotate_button,
                    tight_box_obj, changed_poly, tb_selected, canon_before, disk_vars, nav_vars, ui_vars, lib_vars, next_id, tb_vars >>

\* Polygon.down_poly then Polygon.chkup_poly: a click inside polygon n.
\* down_poly makes the polygon the one selected last and writes its text and
\* type to the two variables, whose listeners save them to it when it is
\* selected; chkup_poly then turns select_poly over.
ClickPoly(n) ==
    /\ Dispatch
    /\ last_call' = NoCall
    /\ UNCHANGED << buttons, progress_bar, tight_box_cnv >>
    /\ n \in Indices
    /\ last_selected_polygon' = polygons[n].polygon_id
    /\ UNCHANGED pressed_poly
    /\ LET p == polygons[n]
           shown == set_variables(polygons, p.polygon_id, p.text, p.poly_type)
       IN  /\ polygons' = [shown EXCEPT ![n].select_poly = ~p.select_poly]
           /\ current_saved' = IF p.select_poly THEN FALSE ELSE current_saved
           /\ save_image_button' = IF p.select_poly THEN "normal" ELSE save_image_button
    /\ UNCHANGED << scale_factor, drawing_polygon, auto_annotate_button,
                    tight_box_obj, changed_poly, tb_selected, canon_before, disk_vars, nav_vars,
                    notice, drawing_obj, lib_vars, next_id, tb_vars >>

\* Button 1 pressed inside polygon n (Polygon.down_poly): the polygon is the
\* one selected last, and its text and type are written to the two variables.
DownPoly(n) ==
    /\ Dispatch
    /\ pressed_poly = 0
    /\ n \in Indices
    /\ last_call' = NoCall
    /\ last_selected_polygon' = polygons[n].polygon_id
    /\ pressed_poly' = polygons[n].polygon_id
    /\ LET p == polygons[n]
           shown == set_variables(polygons, p.polygon_id, p.text, p.poly_type)
       IN  /\ polygons' = [shown EXCEPT ![n] = down_poly(@)]
           /\ current_saved' = IF p.select_poly THEN FALSE ELSE current_saved
           /\ save_image_button' = IF p.select_poly THEN "normal" ELSE save_image_button
    /\ UNCHANGED << scale_factor, drawing_polygon, auto_annotate_button,
                    tight_box_obj, changed_poly, tb_selected, canon_before, disk_vars, nav_vars,
                    notice, drawing_obj, lib_vars, next_id, tb_vars,
                    buttons, progress_bar, tight_box_cnv >>

\* Button 1 released: the canvas hands the release to the item the press was
\* on, so Polygon.chkup_poly runs for that polygon if it is still there.
ChkupPoly ==
    /\ Dispatch
    /\ pressed_poly # 0
    /\ pressed_poly' = 0
    /\ last_call' = NoCall
    /\ polygons' = [n \in Indices |->
                       IF polygons[n].polygon_id = pressed_poly
                       THEN chkup_poly(polygons[n])
                       ELSE polygons[n]]
    /\ UNCHANGED << scale_factor, current_saved, drawing_polygon, auto_annotate_button,
                    tight_box_obj, changed_poly, tb_selected, canon_before, disk_vars, nav_vars,
                    last_selected_polygon, notice, drawing_obj, save_image_button,
                    lib_vars, next_id, tb_vars, buttons, progress_bar, tight_box_cnv >>

\* The pointer leaves polygon n (Polygon.leave_poly).  The canvas sends no
\* Leave while a button is held.  The reset of the two variables, made when
\* no polygon is selected, reaches no polygon.
LeavePoly(n) ==
    /\ Dispatch
    /\ pressed_poly = 0
    /\ n \in Indices
    /\ last_call' = NoCall
    /\ polygons' = [polygons EXCEPT ![n] = leave_poly(@)]
    /\ UNCHANGED << scale_factor, current_saved, drawing_polygon, auto_annotate_button,
                    tight_box_obj, changed_poly, tb_selected, canon_before, disk_vars, nav_vars,
                    ui_vars, lib_vars, next_id, tb_vars, buttons, progress_bar,
                    tight_box_cnv >>

\* delete_selected without adjusted_idx: every pop at the position collected
\* before the first pop (a position past the end pops nothing).
RECURSIVE PopAllUnadjusted(_, _, _)
PopAllUnadjusted(polys, idxs, offset) ==
    IF idxs = <<>>
    THEN polys
    ELSE PopAllUnadjusted(
             IF Head(idxs) <= Len(polys)
             THEN SubSeq(polys, 1, Head(idxs) - 1)
                      \o SubSeq(polys, Head(idxs) + 1, Len(polys))
             ELSE polys,
             Tail(idxs), offset + 1)

\* The list after GUI.delete_selected popped the positions idxs, each shifted
\* by the number of pops made before it.
RECURSIVE PopAll(_, _, _)
PopAll(polys, idxs, offset) ==
    IF idxs = <<>>
    THEN polys
    ELSE LET adjusted_idx == Head(idxs) - offset IN
         PopAll(SubSeq(polys, 1, adjusted_idx - 1)
                    \o SubSeq(polys, adjusted_idx + 1, Len(polys)),
                Tail(idxs), offset + 1)

\* The positions of the selected polygons, ascending.
RECURSIVE SelectedFrom(_, _)
SelectedFrom(polys, n) ==
    IF n > Len(polys)
    THEN <<>>
    ELSE (IF polys[n].select_poly THEN <<n>> ELSE <<>>) \o SelectedFrom(polys, n + 1)

\* GUI.delete_selected on Control-d.
DeleteSelected ==
    /\ Dispatch
    /\ last_call' = [op |-> "delete_selected", n |-> Len(SelectedFrom(polygons, 1))]
    /\ UNCHANGED << buttons, progress_bar, tight_box_cnv >>
    /\ polygons' = set_variables(PopAll(polygons, SelectedFrom(polygons, 1), 0),
                                 last_selected_polygon, "", DefaultType)
    /\ auto_annotate_button' = IF Len(polygons') = 0 THEN "normal" ELSE auto_annotate_button
    /\ current_saved' = FALSE
    /\ save_image_button' = "normal"
    /\ UNCHANGED << scale_factor, drawing_polygon, tight_box_obj, changed_poly, tb_selected, canon_before,
                    disk_vars, nav_vars, last_selected_polygon, pressed_poly, notice, drawing_obj, lib_vars, next_id, tb_vars >>

\* GUI.auto_annotate: the predictor's polygons are added by draw_polys.
AutoAnnotate(pred) ==
    /\ Dispatch
    /\ auto_annotate_button = "normal"
    /\ Len(polygons) + Len(pred) <= MaxPolys
    /\ next_id + Len(pred) - 1 <= MaxIds
    /\ polygons' = draw_polys(polygons, pred, Repeat(DefaultType, Len(pred)),
                              Repeat("", Len(pred)), scale_factor, next_id)
    /\ next_id' = next_id + Len(pred)
    /\ current_saved' = FALSE
    /\ save_image_button' = "normal"
    /\ auto_annotate_button' = "disabled"
    /\ buttons' = "normal"
    /\ progress_bar' = FALSE
    /\ last_call' = NoCall
    /\ UNCHANGED << scale_factor, drawing_polygon, tight_box_obj, changed_poly, tb_selected, canon_before,
                    disk_vars, nav_vars, last_selected_polygon, pressed_poly, notice, drawing_obj, lib_vars, tb_vars, tight_box_cnv >>


\* ------------------------------------------------------------------------
\* Drawing a region
\* ------------------------------------------------------------------------

\* DrawPoly.draw_point accepts a click inside the scaled image only.
InBounds(pt, sf) == 10 * pt[1] <= img_width * sf /\ 10 * pt[2] <= img_height * sf

\* The ids of the selected polygons.
SelectedIds(polys) ==
    { polys[n].polygon_id : n \in { m \in 1..Len(polys) : polys[m].select_poly } }

\* GUI.draw_poly_func on Control-f: deselect_all, drawing mode, hide_buttons.
DrawPolyFunc ==
    /\ Dispatch
    /\ polygons' = [n \in Indices |-> deselect_poly(polygons[n])]
    /\ drawing_polygon' = TRUE
    /\ auto_annotate_button' = "disabled"
    /\ buttons' = "disabled"
    /\ save_image_button' = "disabled"
    /\ drawing_obj' = NewDrawPoly
    /\ last_call' = NoCall
    /\ UNCHANGED << progress_bar, tight_box_cnv >>
    /\ UNCHANGED << scale_factor, current_saved, tight_box_obj, changed_poly, tb_selected, canon_before,
                    disk_vars, nav_vars, last_selected_polygon, pressed_poly, notice, lib_vars,
                    next_id, tb_vars >>

\* GUI.save_drawing: the fourth accepted click ends the drawing of quad (canvas
\* positions).  auto_tight_poly and keep_drawing are the two check boxes.  With
\* auto_tight_poly the handler goes on in tight_box, called by make_tight.
\* The DrawPoly is dropped by delete_self with the four point widgets still
\* in its list; with keep_drawing draw_poly_func makes a new one.
SaveDrawing(quad, auto_tight_poly, keep_drawing, plan) ==
    /\ Dispatch
    /\ auto_tight_poly => tb_pc = "idle"
    /\ drawing_polygon
    /\ \A i \in 1..NPts : InBounds(quad[i], scale_factor)
    /\ Len(polygons) < MaxPolys
    /\ next_id <= MaxIds
    /\ LET new_poly_pts == MapPts(IntPts(quad), LAMBDA v : TrueDiv(v, scale_factor))
           added == add_poly(polygons, new_poly_pts, scale_factor, next_id)
           kept == IF keep_drawing
                   THEN [n \in 1..Len(added) |-> deselect_poly(added[n])]
                   ELSE added
       IN  /\ next_id' = next_id + 1
           /\ drawing_polygon' = keep_drawing
           /\ drawing_obj' = IF keep_drawing
                             THEN NewDrawPoly
                             ELSE delete_self([drawing_obj EXCEPT !.points = quad])
           /\ buttons' = IF keep_drawing THEN "disabled" ELSE "normal"
           /\ save_image_button' = IF auto_tight_poly /\ keep_drawing
                                   THEN "disabled" ELSE "normal"
           /\ tight_box_cnv' = IF auto_tight_poly THEN "img_cnv" ELSE tight_box_cnv
           /\ IF auto_tight_poly
              THEN /\ polygons' = [n \in 1..Len(kept) |->
                                     [kept[n] EXCEPT !.select_poly = (n = Len(kept))]]
                   /\ plan \in [{next_id} -> TightOutcomes]
                   /\ tight_box_obj' = TRUE
                   /\ changed_poly' = <<>>
                   /\ tb_selected' = [id \in {next_id} |-> kept[Len(kept)]]
                   /\ canon_before' = <<>>
                   /\ tb_thread' = "main"
                   /\ tb_pc' = "visit"
                   /\ tb_idx' = 1
                   /\ tb_plan' = plan
                   /\ tb_caller' = "save_drawing"
                   /\ auto_annotate_button' = IF keep_drawing THEN "disabled" ELSE "normal"
                   /\ UNCHANGED << current_saved, tb_pt, tb_p, tb_rect >>
              ELSE /\ polygons' = kept
                   /\ plan = <<>>
                   /\ auto_annotate_button' = "disabled"
                   /\ current_saved' = FALSE
                   /\ UNCHANGED << tight_box_obj, changed_poly, tb_selected, canon_before, tb_vars >>
    /\ last_call' = NoCall
    /\ UNCHANGED << scale_factor, disk_vars, nav_vars, last_selected_polygon, pressed_poly, notice,
                    lib_vars, progress_bar >>

\* GUI.discard_drawing on Control-c: show_buttons, then the drawing is
\* dropped; with no drawing open drawing_obj is None, and the handler ends
\* there with an AttributeError.
DiscardDrawing ==
    /\ Dispatch
    /\ drawing_polygon' = FALSE
    /\ auto_annotate_button' = "normal"
    /\ buttons' = "normal"
    /\ save_image_button' = "normal"
    /\ last_call' = NoCall
    /\ UNCHANGED << progress_bar, tight_box_cnv >>
    /\ current_saved' = IF drawing_polygon THEN FALSE ELSE current_saved
    /\ drawing_obj' = IF drawing_obj.held THEN delete_self(drawing_obj) ELSE drawing_obj
    /\ UNCHANGED << scale_factor, polygons, tight_box_obj, changed_poly, tb_selected, canon_before,
                    disk_vars, nav_vars, last_selected_polygon, pressed_poly, notice, lib_vars,
                    next_id, tb_vars >>

\* The tests of DrawPoly.draw_point: drawing mode, and the click not beyond
\* the right or the lower edge of the scaled image.
accepts(drawing, pt, sf) == drawing /\ InBounds(pt, sf)

\* DrawPoly.draw_point for an accepted click: the coordinates and the point
\* widget are appended.
draw_point(obj, pt) ==
    [obj EXCEPT !.pt_coords = Append(@, pt), !.points = Append(@, pt)]

\* The list without its element at position i.
pop(list, i) == SubSeq(list, 1, i - 1) \o SubSeq(list, i + 1, Len(list))

\* DrawPoly.chkup_rmb_point for the point widget at position index_pt.
chkup_rmb_point(obj, index_pt) ==
    [obj EXCEPT !.points = pop(@, index_pt), !.pt_coords = pop(@, index_pt)]

\* A click on the canvas at pt (ButtonRelease-1).  The fourth point calls
\* finish, which is GUI.save_drawing; the model follows it for the drawings
\* that have no negative coordinate, which are those the coordinate values
\* above cover.
DrawPoint(pt, auto_tight_poly, keep_drawing, plan) ==
    /\ MainFree
    /\ accepts(drawing_polygon, pt, scale_factor)
    /\ IF Len(draw_point(drawing_obj, pt).points) = NPts
       THEN /\ \A i \in 1..Len(draw_point(drawing_obj, pt).pt_coords) :
                 draw_point(drawing_obj, pt).pt_coords[i][1] >= 0
            /\ SaveDrawing(draw_point(drawing_obj, pt).pt_coords,
                           auto_tight_poly, keep_drawing, plan)
       ELSE /\ drawing_obj' = draw_point(drawing_obj, pt)
            /\ plan = <<>>
            /\ ~auto_tight_poly /\ ~keep_drawing
            /\ UNCHANGED << scale_factor, polygons, current_saved, drawing_polygon,
                            auto_annotate_button, tight_box_obj, changed_poly, tb_selected,
                            canon_before, next_id, tb_vars, events, disk_vars, nav_vars,
                            buttons, progress_bar, tight_box_cnv, last_call,
                            last_selected_polygon, pressed_poly, notice, save_image_button,
                            lib_vars >>

\* A right click on the point widget at position index_pt (ButtonRelease-3).
RmbPoint(index_pt) ==
    /\ MainFree
    /\ drawing_obj.held
    /\ index_pt \in 1..Len(drawing_obj.points)
    /\ drawing_obj' = chkup_rmb_point(drawing_obj, index_pt)
    /\ UNCHANGED << scale_factor, polygons, current_saved, drawing_polygon,
                    auto_annotate_button, tight_box_obj, changed_poly, tb_selected,
                    canon_before, next_id, tb_vars, events, disk_vars, nav_vars,
                    buttons, progress_bar, tight_box_cnv, last_call,
                    last_selected_polygon, pressed_poly, notice, save_image_button, lib_vars >>

\* ------------------------------------------------------------------------
\* TightBox
\* ------------------------------------------------------------------------

\* cv2.boxPoints of a rectangle of angle 0, truncated by np.intp.
boxPoints(c, size) ==
    LET lo(x, s) == (2 * x - s) \div 2
        hi(x, s) == (2 * x + s) \div 2
    IN  << << lo(c[1], size[1]), hi(c[2], size[2]) >>,
           << lo(c[1], size[1]), lo(c[2], size[2]) >>,
           << hi(c[1], size[1]), lo(c[2], size[2]) >>,
           << hi(c[1], size[1]), hi(c[2], size[2]) >> >>

\* if w < 2 or h < 2: continue
TooSmall(o) == o.size[1] < min_rect_size \/ o.size[2] < min_rect_size

\* expanded_rect of tight_box for an outcome that is not skipped.
expanded_rect(o) ==
    boxPoints(o.c, << o.size[1] + expand_margin, o.size[2] + expand_margin >>)

\* The position of the polygon with the given id, 0 when it left the list.
PosOf(polys, id) ==
    IF \E n \in 1..Len(polys) : polys[n].polygon_id = id
    THEN CHOOSE n \in 1..Len(polys) : polys[n].polygon_id = id
    ELSE 0

\* original_pts of an undo record: the display points over the scale factor.
original_pts(rec) == MapPts(rec.pts, LAMBDA v : TrueDiv(v, rec.sf))

\* The locals of tight_box once the call is over.
TbOver ==
    /\ tb_thread' = "none"
    /\ tb_idx' = 0
    /\ tb_pt' = 0
    /\ tb_p' = 0
    /\ tb_rect' = NoOutcome
    /\ tb_plan' = <<>>
    /\ tb_caller' = "none"

\* GUI.make_tight on Control-t.  With at most one polygon selected the
\* handler makes a new TightBox and runs tight_box itself.  With more it
\* shows the progress bar and starts a worker thread: the handler ends with
\* the Save button enabled, and the thread makes the new TightBox (TbStart).
\* plan is what the image holds under each selected region.
MakeTight(plan) ==
    /\ Dispatch
    /\ tb_pc = "idle"
    /\ plan \in [SelectedIds(polygons) -> TightOutcomes]
    /\ tb_selected' = [id \in SelectedIds(polygons) |-> polygons[PosOf(polygons, id)]]
    /\ last_call' = NoCall
    /\ IF Cardinality(SelectedIds(polygons)) > 1
       THEN /\ tb_thread' = "worker"
            /\ tb_pc' = "start"
            /\ progress_bar' = TRUE
            /\ save_image_button' = "normal"
            /\ UNCHANGED << tight_box_obj, changed_poly, canon_before,
                            tight_box_cnv, auto_annotate_button, buttons >>
       ELSE /\ tb_thread' = "main"
            /\ tb_pc' = "visit"
            /\ tight_box_obj' = TRUE
            /\ changed_poly' = <<>>
            /\ canon_before' = <<>>
            /\ tight_box_cnv' = "img_cnv"
            /\ UNCHANGED << auto_annotate_button, buttons, progress_bar,
                            save_image_button >>
    /\ tb_idx' = 1
    /\ tb_plan' = plan
    /\ tb_caller' = "make_tight"
    /\ UNCHANGED << scale_factor, polygons, current_saved, drawing_polygon,
                    disk_vars, nav_vars, last_selected_polygon, pressed_poly, notice, drawing_obj, lib_vars, next_id, tb_pt, tb_p, tb_rect >>

\* The worker thread of make_tight begins: hide_buttons, then the new
\* TightBox is assigned to tight_box_obj.  Until this step the main thread
\* finds the TightBox of the call before in tight_box_obj.
TbStart ==
    /\ UNCHANGED << events, last_call, progress_bar, tb_selected >>
    /\ tb_thread = "worker"
    /\ tb_pc = "start"
    /\ auto_annotate_button' = "disabled"
    /\ buttons' = "disabled"
    /\ save_image_button' = "disabled"
    /\ tight_box_obj' = TRUE
    /\ changed_poly' = <<>>
    /\ canon_before' = <<>>
    /\ tight_box_cnv' = "img_cnv"
    /\ tb_pc' = "visit"
    /\ UNCHANGED << scale_factor, polygons, current_saved, drawing_polygon,
                    disk_vars, nav_vars, last_selected_polygon, pressed_poly,
                    notice, drawing_obj, lib_vars, next_id, tb_thread, tb_idx,
                    tb_pt, tb_p, tb_rect, tb_plan, tb_caller >>

\* tight_box returns: the worker thread goes on to show_buttons and ends,
\* check_thread is left to poll; on the main thread make_tight goes on with
\* deselect_all, and save_drawing with the auto label of the last polygon.
TbReturn ==
    /\ UNCHANGED << events, last_call, tight_box_cnv >>
    /\ tb_pc = "visit"
    /\ tb_idx > Len(polygons)
    /\ TbOver
    /\ save_image_button' = "normal"
    /\ IF tb_thread = "worker"
       THEN /\ tb_pc' = "poll"
            /\ auto_annotate_button' = "disabled"
            /\ buttons' = "normal"
            /\ progress_bar' = FALSE
            /\ UNCHANGED << polygons, current_saved >>
       ELSE /\ tb_pc' = "idle"
            /\ UNCHANGED << buttons, progress_bar >>
            /\ IF tb_caller = "save_drawing"
               THEN /\ \E text \in Texts :
                          polygons' = [n \in Indices |->
                              IF n = Len(polygons)
                              THEN [deselect_poly(polygons[n]) EXCEPT !.text = text]
                              ELSE deselect_poly(polygons[n])]
                    /\ auto_annotate_button' = "disabled"
                    /\ current_saved' = FALSE
               ELSE /\ polygons' = [n \in Indices |-> deselect_poly(polygons[n])]
                    /\ UNCHANGED << current_saved, auto_annotate_button >>
    /\ UNCHANGED << scale_factor, drawing_polygon, tight_box_obj, changed_poly, tb_selected, canon_before,
                    disk_vars, nav_vars, last_selected_polygon, pressed_poly, notice, drawing_obj, lib_vars, next_id >>

\* One turn of the for loop of tight_box that passes an unselected polygon.
TbPass ==
    /\ UNCHANGED << events, last_call, buttons, progress_bar, tight_box_cnv >>
    /\ tb_pc = "visit"
    /\ tb_idx <= Len(polygons)
    /\ ~polygons[tb_idx].select_poly
    /\ tb_idx' = tb_idx + 1
    /\ UNCHANGED << scale_factor, polygons, current_saved, drawing_polygon,
                    auto_annotate_button, tight_box_obj, changed_poly, tb_selected, canon_before, disk_vars, nav_vars, ui_vars, lib_vars,
                    next_id, tb_thread, tb_pc, tb_pt, tb_p, tb_rect, tb_plan,
                    tb_caller >>

\* One turn of the for loop of tight_box for a selected polygon, up to the
\* inner loop: the undo record is appended, then cv2 finds o under the
\* region and raises (the call ends with the exception, and with it the
\* handler or the worker thread), or the rectangle is too small (continue),
\* or the points are about to be updated.
TbVisit(o, raises) ==
    /\ UNCHANGED << events, last_call, buttons, progress_bar, tight_box_cnv,
                    tb_selected >>
    /\ tb_pc = "visit"
    /\ tb_idx <= Len(polygons)
    /\ polygons[tb_idx].select_poly
    /\ LET p == polygons[tb_idx] IN
          /\ p.polygon_id \in DOMAIN tb_plan => o = tb_plan[p.polygon_id]
          /\ raises \in MayRaise(o)
          /\ changed_poly' =
                 Append(changed_poly,
                        [p |-> p.polygon_id, pts |-> p.pt_coords, sf |-> scale_factor])
          /\ canon_before' = Append(canon_before, p.original_coords)
          /\ IF raises
             THEN /\ TbOver
                  /\ tb_pc' = IF tb_thread = "worker" THEN "poll" ELSE "idle"
             ELSE /\ tb_idx' = tb_idx + 1
                  /\ tb_p' = p.polygon_id
                  /\ tb_rect' = o
                  /\ IF TooSmall(o)
                     THEN UNCHANGED << tb_pc, tb_pt >>
                     ELSE tb_pc' = "points" /\ tb_pt' = 1
                  /\ UNCHANGED << tb_thread, tb_plan, tb_caller >>
    /\ UNCHANGED << scale_factor, polygons, current_saved, drawing_polygon,
                    auto_annotate_button, tight_box_obj, disk_vars, nav_vars, ui_vars, lib_vars, next_id >>

\* One turn of the inner loop: p.update_point(point, new_x, new_y).
TbPoint ==
    /\ UNCHANGED << events, last_call, buttons, progress_bar, tight_box_cnv >>
    /\ tb_pc = "points"
    /\ LET n == PosOf(polygons, tb_p)
           e == expanded_rect(tb_rect)[tb_pt]
       IN  polygons' =
               IF n = 0
               THEN polygons
               ELSE [polygons EXCEPT ![n] =
                        update_point(@, tb_pt, TrueMul(IntVal(e[1]), scale_factor),
                                     TrueMul(IntVal(e[2]), scale_factor), FALSE)]
    /\ tb_pt' = tb_pt + 1
    /\ tb_pc' = IF tb_pt = NPts THEN "finish" ELSE "points"
    /\ UNCHANGED << scale_factor, current_saved, drawing_polygon, auto_annotate_button,
                    tight_box_obj, changed_poly, tb_selected, canon_before, disk_vars, nav_vars, ui_vars, lib_vars, next_id,
                    tb_thread, tb_idx, tb_p, tb_rect, tb_plan, tb_caller >>

\* The end of the loop body: original_coords from pt_coords, update_polygon.
TbFinish ==
    /\ UNCHANGED << events, last_call, buttons, progress_bar, tight_box_cnv >>
    /\ tb_pc = "finish"
    /\ LET n == PosOf(polygons, tb_p) IN
          polygons' =
              IF n = 0
              THEN polygons
              ELSE [polygons EXCEPT ![n] =
                       update_polygon(
                           [polygons[n] EXCEPT !.original_coords =
                               MapPts(polygons[n].pt_coords,
                                      LAMBDA v : IntVal(DivTrunc(v, scale_factor)))])]
    /\ tb_pc' = "visit"
    /\ UNCHANGED << scale_factor, current_saved, drawing_polygon, auto_annotate_button,
                    tight_box_obj, changed_poly, tb_selected, canon_before, disk_vars, nav_vars, ui_vars, lib_vars, next_id,
                    tb_thread, tb_idx, tb_pt, tb_p, tb_rect, tb_plan, tb_caller >>

\* check_thread of make_tight finds the worker thread ended: deselect_all.
CheckThread ==
    /\ Dispatch
    /\ last_call' = NoCall
    /\ UNCHANGED << buttons, progress_bar, tight_box_cnv >>
    /\ tb_pc = "poll"
    /\ tb_pc' = "idle"
    /\ polygons' = [n \in Indices |-> deselect_poly(polygons[n])]
    /\ UNCHANGED << scale_factor, current_saved, drawing_polygon, auto_annotate_button,
                    tight_box_obj, changed_poly, tb_selected, canon_before, disk_vars, nav_vars, ui_vars, lib_vars, next_id,
                    tb_thread, tb_idx, tb_pt, tb_p, tb_rect, tb_plan, tb_caller >>

\* TightBox.discard_tight_box for the records recs, in order, at scale factor sf.
RECURSIVE discard_tight_box(_, _, _)
discard_tight_box(polys, recs, sf) ==
    IF recs = <<>>
    THEN polys
    ELSE LET rec == Head(recs)
             n == PosOf(polys, rec.p)
             restored ==
                 IF n = 0
                 THEN polys
                 ELSE [polys EXCEPT ![n] =
                          update_polygon(
                              [@ EXCEPT !.pt_coords =
                                  MapPts(original_pts(rec),
                                         LAMBDA v : IntVal(MulTrunc(v, sf)))])]
         IN  discard_tight_box(restored, Tail(recs), sf)

\* discard_tight with a discard_tight_box that does not clear changed_poly.
DiscardTightKeepsLog ==
    /\ Dispatch
    /\ tb_thread = "none" \/ tb_pc = "start"
    /\ last_call' = [op |-> "discard_tight",
                     n |-> IF tight_box_obj THEN Len(changed_poly) ELSE -1]
    /\ IF tight_box_obj
       THEN /\ polygons' = IF tight_box_cnv = "img_cnv"
                           THEN discard_tight_box(polygons, changed_poly, scale_factor)
                           ELSE polygons
            /\ tight_box_obj' = FALSE
            /\ tight_box_cnv' = "none"
            /\ current_saved' = FALSE
            /\ save_image_button' = "normal"
       ELSE UNCHANGED << polygons, tight_box_obj, tight_box_cnv, current_saved,
                         save_image_button >>
    /\ UNCHANGED << scale_factor, drawing_polygon, auto_annotate_button, changed_poly, tb_selected,
                    canon_before, disk_vars, nav_vars, last_selected_polygon, pressed_poly, notice, drawing_obj, lib_vars, next_id, tb_vars, buttons,
                    progress_bar >>

\* GUI.discard_tight on Control-r.  Without a TightBox the AttributeError is
\* swallowed.  The call waits for the mutex of the TightBox while its
\* tight_box runs; before the worker thread has made its TightBox the call
\* is served by the one before.  The Polygon objects a TightBox made for an earlier image
\* recorded are no longer in the list of the session shown.
DiscardTight ==
    /\ Dispatch
    /\ tb_thread = "none" \/ tb_pc = "start"
    /\ last_call' = [op |-> "discard_tight",
                     n |-> IF tight_box_obj THEN Len(changed_poly) ELSE -1]
    /\ IF tight_box_obj
       THEN /\ polygons' = IF tight_box_cnv = "img_cnv"
                           THEN discard_tight_box(polygons, changed_poly, scale_factor)
                           ELSE polygons
            /\ changed_poly' = <<>>
            /\ canon_before' = <<>>
            /\ tight_box_obj' = FALSE
            /\ tight_box_cnv' = "none"
            /\ current_saved' = FALSE
            /\ save_image_button' = "normal"
       ELSE UNCHANGED << polygons, changed_poly, canon_before, tight_box_obj,
                         tight_box_cnv, current_saved, save_image_button >>
    /\ UNCHANGED << buttons, progress_bar, tb_selected >>
    /\ UNCHANGED << scale_factor, drawing_polygon, auto_annotate_button,
                    disk_vars, nav_vars, last_selected_polygon, pressed_poly, notice, drawing_obj, lib_vars, next_id, tb_vars >>

\* ------------------------------------------------------------------------
\* The next image and the end of the folder
\* ------------------------------------------------------------------------

\* The texts of the pop-ups.
InvalidIndex == "Invalid image index"

UnsavedChanges == "You have unsaved changes. Do you want to save them?"

DoneWithImages == "Done with Images in this directory"

\* GUI.load_new_img for the image at position name, with ann for it in
\* pre_annotations.json: a new ImageOnCanvas at scale factor 1.0 with the
\* polygons of load_json.  GUI.tight_box_obj, GUI.last_selected_polygon and
\* GUI.drawing_obj are left as they are.
load_new_img(name, ann) ==
    LET loaded == load_json(read_json(prior.tmp,
                                      temp_annotations(images_in_dir,
                                          tmp_annotations', tmp_keys', name),
                                      NoFile),
                            read_json(prior.pre, ann, <<>>), next_id)
    IN  /\ Len(loaded) <= MaxPolys
        /\ next_id + Len(loaded) - 1 <= MaxIds
        /\ polygons' = loaded
        /\ next_id' = next_id + Len(loaded)
        /\ auto_annotate_button' = IF Len(loaded) > 0 THEN "disabled" ELSE "normal"
        /\ image_path' = name
        /\ scale_factor' = unit_scale
        /\ drawing_polygon' = FALSE
        /\ current_saved' = TRUE
        /\ save_image_button' = "disabled"
        /\ tight_box_cnv' = IF tight_box_obj THEN "old" ELSE tight_box_cnv

\* GUI.next_img from the reset of the two variables on (gui.py:522), for the
\* image at position idx.  The reset writes "" and type_options[0] to the
\* polygon selected last when it is selected, which makes the session
\* unsaved.  The image is loaded by load_new_img, for unsaved changes after
\* the pop-up's Save (saver) or Dismiss: a new ImageOnCanvas at scale factor
\* 1.0 with the polygons of load_json.  GUI.tight_box_obj,
\* GUI.last_selected_polygon and GUI.drawing_obj are left as they are.
\* load_new_img disables the Save button.
next_img_load(idx, save, ann) ==
    LET reset == set_variables(polygons, last_selected_polygon, "", DefaultType)
        unsaved == ~current_saved \/ label_applies(polygons, last_selected_polygon)
    IN  /\ IF unsaved /\ save
           THEN call_save_json(reset)
           ELSE UNCHANGED << tmp_labels_dir, tmp_annotations, tmp_keys, export_lens, saving_path >>
        /\ notice' = IF unsaved THEN UnsavedChanges ELSE notice
        /\ load_new_img(idx, ann)
        /\ curr_idx' = idx
        /\ prev_img_button' = IF idx > 0 THEN "normal" ELSE prev_img_button
        /\ image_name' = idx
        /\ UNCHANGED save_msgs
        /\ UNCHANGED labels_json

\* GUI.next_img on the Next button.  Past the last image a pop-up is shown
\* and final_save merges the snapshot files into labels.json (os.listdir
\* raises when the folder tmp_annotations was never made).
NextImg(save, ann) ==
    /\ Dispatch
    /\ buttons = "normal"
    /\ tb_thread = "none"
    /\ last_call' = NoCall
    /\ IF curr_idx + 1 >= NumImages
       THEN /\ notice' = DoneWithImages
            /\ labels_json' =
                  IF tmp_labels_dir
                  THEN [written |-> TRUE, data |-> final_save(tmp_annotations, 0, {})]
                  ELSE labels_json
            /\ UNCHANGED << scale_factor, polygons, current_saved, drawing_polygon,
                            auto_annotate_button, next_id, curr_idx, prev_img_button,
                            image_name, image_path, save_msgs, tight_box_cnv,
                            save_image_button,
                            tmp_labels_dir, tmp_annotations, tmp_keys, export_lens, saving_path >>
       ELSE next_img_load(curr_idx + 1, save, ann)
    /\ UNCHANGED << tight_box_obj, changed_poly, tb_selected, canon_before, tb_vars, environ, images_in_dir,
                    buttons, progress_bar, last_selected_polygon, pressed_poly, drawing_obj,
                    lib_vars >>

\* images_in_dir[idx] for an index Python accepts: a negative one counts
\* from the end of the list.
list_index(idx) == IF idx < 0 THEN idx + NumImages ELSE idx

\* GUI.next_img, entered with curr_idx = from and the Prev button in the state
\* prev (what previous_img and jump_to_image leave before they call it).
\* Past the last image final_save runs.  Otherwise the two variables are
\* reset, which writes "" and type_options[0] to the polygon selected last
\* when it is selected and makes the session unsaved; images_in_dir[curr_idx]
\* raises IndexError for an index below -len(images_in_dir); an unsaved
\* session stays open under a pop-up that offers Save and Dismiss, a saved
\* one is replaced by load_new_img.
next_img(from, prev, ann) ==
    LET idx == from + 1
        reset == set_variables(polygons, last_selected_polygon, "", DefaultType)
        applies == label_applies(polygons, last_selected_polygon)
    IN  IF idx >= NumImages
        THEN /\ notice' = DoneWithImages
             /\ curr_idx' = idx - 1
             /\ prev_img_button' = prev
             /\ labels_json' =
                   IF tmp_labels_dir
                   THEN [written |-> TRUE, data |-> final_save(tmp_annotations, 0, {})]
                   ELSE labels_json
             /\ UNCHANGED << scale_factor, polygons, current_saved, drawing_polygon,
                             auto_annotate_button, next_id, image_name, image_path,
                             save_msgs, tight_box_cnv, save_image_button,
                             tmp_labels_dir, tmp_annotations, tmp_keys, export_lens, saving_path >>
        ELSE /\ curr_idx' = idx
             /\ prev_img_button' = IF idx > 0 THEN "normal" ELSE prev
             /\ UNCHANGED disk_vars
             /\ IF idx < 0 - NumImages
                THEN /\ polygons' = reset
                     /\ current_saved' = IF applies THEN FALSE ELSE current_saved
                     /\ save_image_button' = IF applies THEN "normal" ELSE save_image_button
                     /\ UNCHANGED << scale_factor, drawing_polygon, auto_annotate_button,
                                     next_id, image_name, image_path, save_msgs,
                                     tight_box_cnv, notice >>
                ELSE /\ image_name' = list_index(idx)
                     /\ IF ~current_saved \/ applies
                        THEN /\ polygons' = reset
                             /\ current_saved' = FALSE
                             /\ save_image_button' =
                                    IF applies THEN "normal" ELSE save_image_button
                             /\ notice' = UnsavedChanges
                             /\ save_msgs' = save_msgs + 1
                             /\ UNCHANGED << scale_factor, drawing_polygon,
                                             auto_annotate_button, next_id, image_path,
                                             tight_box_cnv >>
                        ELSE /\ load_new_img(list_index(idx), ann)
                             /\ UNCHANGED << save_msgs, notice >>

\* What no step of the navigation changes.
nav_frame ==
    << tight_box_obj, changed_poly, tb_selected, canon_before, tb_vars, environ,
       images_in_dir, buttons, progress_bar, last_selected_polygon, pressed_poly,
       drawing_obj, lib_vars >>

\* The Next button, the pop-up left open.
NextImgAsk(ann) ==
    /\ Dispatch
    /\ buttons = "normal"
    /\ tb_thread = "none"
    /\ last_call' = NoCall
    /\ next_img(curr_idx, prev_img_button, ann)
    /\ UNCHANGED nav_frame

\* GUI.previous_img on the Prev button, which hide_buttons leaves alone.
PreviousImg(ann) ==
    /\ Dispatch
    /\ prev_img_button = "normal"
    /\ tb_thread = "none"
    /\ last_call' = NoCall
    /\ IF curr_idx = 1
       THEN next_img(0 - 1, "disabled", ann)
       ELSE next_img(curr_idx - 2, prev_img_button, ann)
    /\ UNCHANGED nav_frame

\* The Save button of a pop-up (on_save): saver, then load_new_img for
\* GUI.image_name.  The ValueError of save_json ends the handler before the
\* load.
OnSave(ann) ==
    /\ Dispatch
    /\ save_msgs > 0
    /\ save_msgs' = save_msgs - 1
    /\ last_call' = NoCall
    /\ call_save_json(polygons)
    /\ IF saving_path' = "ValueError"
       THEN /\ save_image_button' = "disabled"
            /\ UNCHANGED << polygons, next_id, auto_annotate_button, image_path,
                            scale_factor, drawing_polygon, current_saved, tight_box_cnv >>
       ELSE load_new_img(image_name, ann)
    /\ UNCHANGED << curr_idx, prev_img_button, image_name, notice, labels_json >>
    /\ UNCHANGED nav_frame

\* The Dismiss button of such a pop-up (on_dismiss): load_new_img alone.
OnDismiss(ann) ==
    /\ Dispatch
    /\ save_msgs > 0
    /\ save_msgs' = save_msgs - 1
    /\ last_call' = NoCall
    /\ UNCHANGED disk_vars
    /\ load_new_img(image_name, ann)
    /\ UNCHANGED << curr_idx, prev_img_button, image_name, notice >>
    /\ UNCHANGED nav_frame

\* The texts int() accepts among those of the model, in ascending order of
\* their values from -1 on.
Numerals == << "-1", "0", "1", "2", "3" >>

\* int(text) for a text of Numerals; for any other text int raises ValueError.
int(text) == (CHOOSE i \in 1..Len(Numerals) : Numerals[i] = text) - 2

\* The range test with its lower limit one too high.
out_of_range_from_two(jump_idx) == jump_idx < 2 \/ jump_idx >= NumImages + 1

\* if jump_idx < 1 or jump_idx >= len(self.images_in_dir) + 1
out_of_range(jump_idx) == jump_idx < 1 \/ jump_idx >= NumImages + 1

\* GUI.jump_to_image on the Go to Image button, with entry in the jump entry.
JumpToImage(entry, save, ann) ==
    /\ Dispatch
    /\ buttons = "normal"
    /\ tb_thread = "none"
    /\ last_call' = NoCall
    /\ IF (\E i \in 1..Len(Numerals) : Numerals[i] = entry) /\ ~out_of_range(int(entry))
       THEN next_img_load(int(entry) - 1, save, ann)
       ELSE /\ notice' = InvalidIndex
            /\ UNCHANGED << scale_factor, polygons, current_saved, drawing_polygon,
                            auto_annotate_button, next_id, curr_idx, prev_img_button,
                            image_name, image_path, save_msgs, tight_box_cnv,
                            save_image_button,
                            disk_vars >>
    /\ UNCHANGED << tight_box_obj, changed_poly, tb_selected, canon_before, tb_vars, environ, images_in_dir,
                    buttons, progress_bar, last_selected_polygon, pressed_poly, drawing_obj,
                    lib_vars >>

\* A text typed into the label entry: the listener save_label runs.
SaveLabel(text) ==
    /\ Dispatch
    /\ buttons = "normal"
    /\ last_call' = NoCall
    /\ polygons' = save_label(polygons, last_selected_polygon, text)
    /\ current_saved' = IF label_applies(polygons, last_selected_polygon)
                        THEN FALSE ELSE current_saved
    /\ save_image_button' = IF label_applies(polygons, last_selected_polygon)
                            THEN "normal" ELSE save_image_button
    /\ UNCHANGED << scale_factor, drawing_polygon, auto_annotate_button, tight_box_obj,
                    changed_poly, tb_selected, canon_before, disk_vars, nav_vars, last_selected_polygon, pressed_poly, notice, drawing_obj, lib_vars,
                    next_id, tb_vars, buttons, progress_bar, tight_box_cnv >>

\* An entry picked in the type menu: the listener save_type runs.
SaveType(option) ==
    /\ Dispatch
    /\ buttons = "normal"
    /\ last_call' = NoCall
    /\ polygons' = save_type(polygons, last_selected_polygon, option)
    /\ current_saved' = IF label_applies(polygons, last_selected_polygon)
                        THEN FALSE ELSE current_saved
    /\ save_image_button' = IF label_applies(polygons, last_selected_polygon)
                            THEN "normal" ELSE save_image_button
    /\ UNCHANGED << scale_factor, drawing_polygon, auto_annotate_button, tight_box_obj,
                    changed_poly, tb_selected, canon_before, disk_vars, nav_vars, last_selected_polygon, pressed_poly, notice, drawing_obj, lib_vars,
                    next_id, tb_vars, buttons, progress_bar, tight_box_cnv >>

\* ------------------------------------------------------------------------
\* The length check of save_json on its own
\* ------------------------------------------------------------------------

\* The lengths of three lists.
Lens == (0..MaxLen) \X (0..MaxLen) \X (0..MaxLen)

\* save_json from its length check on, for lists of the lengths export_lens.
Export ==
    /\ saving_path = "none"
    /\ saving_path' = save_json_result(export_lens)
    /\ tmp_labels_dir' = TRUE
    /\ tmp_annotations' =
           IF saving_path' = "path"
           THEN [tmp_annotations EXCEPT
                    ![json_slot] = [ polygons |-> Repeat(IntPts(QuadA), export_lens[1]),
                                     labels |-> Repeat("", export_lens[2]),
                                     types |-> Repeat(DefaultType, export_lens[3]),
                                     written |-> TRUE ]]
           ELSE tmp_annotations
    /\ tmp_keys' =
           IF saving_path' = "path"
           THEN [tmp_keys EXCEPT ![json_slot] = image_path]
           ELSE tmp_keys
    /\ UNCHANGED << scale_factor, polygons, current_saved, drawing_polygon,
                    auto_annotate_button, tight_box_obj, changed_poly, tb_selected, canon_before,
                    next_id, tb_vars, events, nav_vars, ui_vars, lib_vars, buttons, progress_bar,
                    tight_box_cnv, labels_json, export_lens, last_call >>

\* ------------------------------------------------------------------------
\* Specifications
\* ------------------------------------------------------------------------

\* A handler of the main thread.
MainStep ==
    \/ \E keysym \in {"plus", "minus"} : Zoom(keysym)
    \/ \E n \in Indices, i \in DragPoints, t \in DragTargets : Motion(n, i, t[1], t[2])
    \/ Saver
    \/ SelectAll
    \/ DeselectAll
    \/ \E n \in Indices : ClickPoly(n)
    \/ DeleteSelected
    \/ \E pred \in Predictions : AutoAnnotate(pred)
    \/ DrawPolyFunc
    \/ \E quad \in DrawnQuads, a, k \in BOOLEAN :
          \E plan \in {<<>>} \cup [{next_id} -> TightOutcomes] :
             SaveDrawing(quad, a, k, plan)
    \/ DiscardDrawing
    \/ \E plan \in [SelectedIds(polygons) -> TightOutcomes] : MakeTight(plan)
    \/ CheckThread
    \/ DiscardTight
    \/ \E save \in BOOLEAN, ann \in InitialAnnotations : NextImg(save, ann)

\* A step of the thread that runs tight_box.
TightStep ==
    \/ TbStart
    \/ TbPass
    \/ \E o \in TightOutcomes, raises \in BOOLEAN : TbVisit(o, raises)
    \/ TbPoint
    \/ TbFinish
    \/ TbReturn

Next == MainStep \/ TightStep

Spec == Init /\ [][Next]_vars

\* The length check of save_json for every three lengths.
InitExport ==
    /\ InitSession(InitialAnnotations)
    /\ export_lens \in Lens
    /\ NoPredict
    /\ NoPrepare
    /\ ReadablePrior

SpecExport == InitExport /\ [][Export]_vars

\* Selection and delete_selected on a session loaded with three regions.
InitDelete ==
    /\ InitSession(ThreeRegions)
    /\ export_lens = << 0, 0, 0 >>
    /\ NoPredict
    /\ NoPrepare
    /\ ReadablePrior

NextDelete ==
    \/ SelectAll
    \/ DeselectAll
    \/ \E n \in Indices : ClickPoly(n)
    \/ DeleteSelected

SpecDelete == InitDelete /\ [][NextDelete]_vars

\* Presses and releases of button 1 on the regions of a session loaded with
\* three regions, with the keys that select and delete between them.
NextSelect ==
    \/ \E n \in Indices : DownPoly(n)
    \/ ChkupPoly
    \/ \E n \in Indices : LeavePoly(n)
    \/ SelectAll
    \/ DeselectAll
    \/ DeleteSelected

SpecSelect == InitDelete /\ [][NextSelect]_vars

\* Go to Image in sessions with and without unsaved changes.
NextJump ==
    \/ \E entry \in JumpEntries, save \in BOOLEAN, ann \in InitialAnnotations :
          JumpToImage(entry, save, ann)
    \/ \E save \in BOOLEAN, ann \in InitialAnnotations : NextImg(save, ann)
    \/ \E pred \in Predictions : AutoAnnotate(pred)
    \/ \E n \in Indices : ClickPoly(n)
    \/ DeleteSelected
    \/ Saver

SpecJump == Init /\ [][NextJump]_vars

\* GUI.jump_to_image on the Go to Image button, the pop-up left open.
JumpAsk(entry, ann) ==
    /\ Dispatch
    /\ buttons = "normal"
    /\ tb_thread = "none"
    /\ last_call' = NoCall
    /\ IF (\E i \in 1..Len(Numerals) : Numerals[i] = entry) /\ ~out_of_range(int(entry))
       THEN next_img(int(entry) - 2, prev_img_button, ann)
       ELSE /\ notice' = InvalidIndex
            /\ UNCHANGED << scale_factor, polygons, current_saved, drawing_polygon,
                            auto_annotate_button, next_id, curr_idx, prev_img_button,
                            image_name, image_path, save_msgs, tight_box_cnv,
                            save_image_button, disk_vars >>
    /\ UNCHANGED nav_frame

\* A folder without pre_annotations.json.
NoAnnotations == { <<>> }

\* Next, Prev and Go to Image over two images whose regions come from the
\* snapshot files of an earlier run, with the pop-ups answered when the user
\* gets to them, between edits and saves.
InitNav ==
    /\ InitFrom(NoAnnotations, ZoomEnvs, PriorFiles,
                { [tmp |-> "readable", pre |-> "readable"] })
    /\ export_lens = << 0, 0, 0 >>
    /\ NoPredict
    /\ NoPrepare

NextNav ==
    \/ \E ann \in NoAnnotations : NextImgAsk(ann)
    \/ \E ann \in NoAnnotations : PreviousImg(ann)
    \/ \E entry \in JumpEntries, ann \in NoAnnotations : JumpAsk(entry, ann)
    \/ \E ann \in NoAnnotations : OnSave(ann)
    \/ \E ann \in NoAnnotations : OnDismiss(ann)
    \/ \E n \in Indices : ClickPoly(n)
    \/ \E text \in EnteredTexts : SaveLabel(text)
    \/ \E n \in Indices, i \in DragPoints, t \in DragTargets : Motion(n, i, t[1], t[2])
    \/ DeleteSelected
    \/ Saver

SpecNav == InitNav /\ [][NextNav]_vars

\* The label entry and the type menu in a session with three regions.
NextLabel ==
    \/ \E text \in EnteredTexts : SaveLabel(text)
    \/ \E option \in TypeOptions : SaveType(option)
    \/ \E n \in Indices : ClickPoly(n)
    \/ SelectAll
    \/ DeselectAll
    \/ DeleteSelected
    \/ Saver

SpecLabel == InitDelete /\ [][NextLabel]_vars

\* Images opened one after the other over the files of an earlier run, some
\* of which cannot be read; nothing is edited, so nothing is saved.
InitLoad ==
    /\ InitFrom(InitialAnnotations, ZoomEnvs, PriorFiles,
                [tmp : {"readable", "unreadable"}, pre : {"readable", "unreadable"}])
    /\ export_lens = << 0, 0, 0 >>
    /\ NoPredict
    /\ NoPrepare

NextLoad ==
    \/ \E ann \in InitialAnnotations : NextImg(FALSE, ann)
    \/ \E entry \in JumpEntries, ann \in InitialAnnotations : JumpToImage(entry, FALSE, ann)
    \/ \E keysym \in {"plus", "minus"} : Zoom(keysym)

SpecLoad == InitLoad /\ [][NextLoad]_vars

\* AutoLabeler.predict is called once for an image.
Predict ==
    /\ ~predicted.returned
    /\ predicted' = predict(json_res, objectness_threshold)
    /\ UNCHANGED << scale_factor, polygons, current_saved, drawing_polygon,
                    auto_annotate_button, tight_box_obj, changed_poly, tb_selected, canon_before,
                    next_id, tb_vars, events, disk_vars, nav_vars, ui_vars, buttons,
                    progress_bar, tight_box_cnv, last_call, json_res,
                    objectness_threshold, data_folder, save_folder, prepared, prior >>

\* An AutoLabeler with either threshold over every export.
InitPredict ==
    /\ InitSession({<<>>})
    /\ export_lens = << 0, 0, 0 >>
    /\ json_res \in Exports
    /\ objectness_threshold \in { default_threshold, high_threshold }
    /\ predicted = NoPrediction
    /\ NoPrepare

SpecPredict == InitPredict /\ [][Predict]_vars

\* prepare_data_folder is called once.
PrepareDataFolder ==
    /\ prepared.raised = "none" /\ prepared.returned = "none"
    /\ LET result == prepare_data_folder(data_folder, save_folder) IN
          /\ prepared' = [raised |-> result.raised, returned |-> result.returned]
          /\ save_folder' = result.save_folder
    /\ UNCHANGED << scale_factor, polygons, current_saved, drawing_polygon,
                    auto_annotate_button, tight_box_obj, changed_poly, tb_selected, canon_before,
                    next_id, tb_vars, events, disk_vars, nav_vars, ui_vars, buttons,
                    progress_bar, tight_box_cnv, last_call, json_res,
                    objectness_threshold, predicted, data_folder, prior >>

\* Every data folder, missing or with one of the listings, next to a folder
\* 'images' that is missing, empty, or holds an image of an earlier call.
InitPrepare ==
    /\ InitWith({<<>>}, ZoomEnvs)
    /\ tmp_labels_dir = FALSE
    /\ export_lens = << 0, 0, 0 >>
    /\ NoPredict
    /\ data_folder \in { [exists |-> FALSE, files |-> <<>>] }
                         \cup [exists : {TRUE}, files : Listings]
    /\ save_folder \in { [exists |-> FALSE, images |-> {}],
                          [exists |-> TRUE, images |-> {}],
                          [exists |-> TRUE, images |-> { << "old", 1 >> }] }
    /\ prepared = [raised |-> "none", returned |-> "none"]

SpecPrepare == InitPrepare /\ [][PrepareDataFolder]_vars

\* The clicks of a drawing, one by one, with the tight box switched off.
NextDraw ==
    \/ DrawPolyFunc
    \/ \E pt \in ClickPositions, k \in BOOLEAN : DrawPoint(pt, FALSE, k, <<>>)
    \/ \E index_pt \in 1..NPts : RmbPoint(index_pt)
    \/ DiscardDrawing
    \/ \E keysym \in {"plus", "minus"} : Zoom(keysym)

SpecDraw == Init /\ [][NextDraw]_vars

\* Auto-annotation of an image whose regions were loaded from a file: the
\* button is there again after a drawing was discarded.
NextAdd ==
    \/ \E keysym \in {"plus", "minus"} : Zoom(keysym)
    \/ \E n \in Indices, i \in DragPoints, t \in DragTargets : Motion(n, i, t[1], t[2])
    \/ \E n \in Indices : ClickPoly(n)
    \/ DrawPolyFunc
    \/ DiscardDrawing
    \/ \E pred \in LatePredictions : AutoAnnotate(pred)

SpecAdd == Init /\ [][NextAdd]_vars

\* The zoom keys alone, for every environment of WideZoomEnvs, in a session
\* without regions.
InitZoom ==
    /\ InitWith({<<>>}, WideZoomEnvs)
    /\ export_lens = << 0, 0, 0 >>
    /\ NoPredict
    /\ NoPrepare
    /\ ReadablePrior

NextZoom == \E keysym \in {"plus", "minus"} : ZoomKey(keysym)

SpecZoom == InitZoom /\ [][NextZoom]_vars


\* ------------------------------------------------------------------------
\* Zoom, drag and save (C1, C2, C3)
\* ------------------------------------------------------------------------

\* C1: a zoom leaves every region's canonical points (original_coords) as they
\* were, and the display points it leaves are the canonical points scaled by
\* the new scale factor and truncated.
C1_ZoomKeepsCanonical ==
    [][ scale_factor' # scale_factor =>
          /\ Len(polygons') = Len(polygons)
          /\ \A n \in Indices :
                /\ polygons'[n].original_coords = polygons[n].original_coords
                /\ polygons'[n].pt_coords =
                       MapPts(polygons[n].original_coords,
                              LAMBDA v : IntVal(MulTrunc(v, scale_factor')))
      ]_vars

\* C2: a drag of point i to the display position (x, y) leaves that point's
\* canonical coordinates at (x, y) over the scale factor of the session,
\* whenever the region was created.
C2_DragWritesCanonical ==
    [][ \A n \in Indices, i \in DragPoints, t \in DragTargets :
          Motion(n, i, t[1], t[2]) =>
              polygons'[n].original_coords[i] =
                  << IntVal(DivTrunc(IntVal(t[1]), scale_factor)),
                     IntVal(DivTrunc(IntVal(t[2]), scale_factor)) >>
      ]_vars

\* C3: a save of a session with regions writes, for each region, its
\* canonical points (original_coords).
C3_SaveWritesCanonical ==
    [][ (Saver /\ Len(polygons) > 0) =>
          tmp_file'.polygons = [n \in Indices |-> polygons[n].original_coords]
      ]_vars

\* ------------------------------------------------------------------------
\* Refinement and discard (C4)
\* ------------------------------------------------------------------------

\* The content under a region gives a rectangle that is not skipped.
ValidContent(o) == o.kind = "rect" /\ ~TooSmall(o)

\* original_coords as tight_box leaves them for content o at scale factor k.
RefinedCoords(o, k) ==
    MapPts(IntPts(expanded_rect(o)), LAMBDA v : IntVal(DivTrunc(TrueMul(v, k), k)))

\* The canonical points of p are those of a refinement.
IsRefined(p) ==
    \E o \in TightOutcomes, k \in ScaleFactors :
        ValidContent(o) /\ p.original_coords = RefinedCoords(o, k)

\* C4: a discard gives every recorded region that still holds its refined
\* canonical points the canonical points it had before the refinement.
C4_DiscardRestoresCanonical ==
    [][ (DiscardTight /\ tight_box_obj) =>
          \A k \in 1..Len(changed_poly) :
              LET n == PosOf(polygons, changed_poly[k].p) IN
                  (n # 0 /\ IsRefined(polygons[n])) =>
                      polygons'[n].original_coords = canon_before[k]
      ]_vars

\* ------------------------------------------------------------------------
\* The worker thread and the main thread (C5, C6)
\* ------------------------------------------------------------------------

\* C5: a save made while the worker thread refines a region writes that
\* region's points all as they were before its refinement or all as the
\* refinement sets them, never some of each.
C5_SaveSeesWholeRegions ==
    [][ (Saver /\ tb_thread = "worker" /\ tb_pc = "points"
               /\ PosOf(polygons, tb_p) # 0
               /\ changed_poly[Len(changed_poly)].sf = scale_factor) =>
          LET n == PosOf(polygons, tb_p)
              written == tmp_file'.polygons[n]
              before == MapPts(changed_poly[Len(changed_poly)].pts,
                               LAMBDA v : IntVal(FloorDiv(v, scale_factor)))
              after == MapPts(IntPts(expanded_rect(tb_rect)),
                              LAMBDA v : IntVal(FloorDiv(TrueMul(v, scale_factor),
                                                         scale_factor)))
          IN  ~ \E i, j \in 1..NPts :
                  /\ written[i] = after[i] /\ after[i] # before[i]
                  /\ written[j] = before[j] /\ before[j] # after[j]
      ]_vars

\* The worker thread is inside the loop of tight_box, between its first and
\* its last turn.
MidPass ==
    /\ tb_thread = "worker"
    /\ \/ tb_pc \in {"points", "finish"}
       \/ tb_pc = "visit" /\ tb_idx > 1 /\ tb_idx <= Len(polygons)

\* C6: while the worker thread is inside its refinement pass no handler of the
\* main thread changes the region list or a region.
C6_NoInterleavedMutation ==
    [][ (MidPass /\ events' # events) => polygons' = polygons ]_vars

\* ------------------------------------------------------------------------
\* The saved flag (C7)
\* ------------------------------------------------------------------------

\* A handler that adds, deletes, drags or discards, or a make_tight that
\* returns after refining a region.
Mutating ==
    \/ \E n \in Indices, i \in DragPoints, t \in DragTargets : Motion(n, i, t[1], t[2])
    \/ DeleteSelected
    \/ \E pred \in Predictions : AutoAnnotate(pred)
    \/ \E quad \in DrawnQuads, k \in BOOLEAN : SaveDrawing(quad, FALSE, k, <<>>)
    \/ DiscardTight /\ tight_box_obj
    \/ TbReturn /\ ValidContent(tb_rect)

\* C7: after an add, a delete, a drag, a refinement or a discard current_saved
\* is false, and nothing but a save makes it true again.
C7_MutationClearsSaved ==
    [][ /\ Mutating => ~current_saved'
        /\ (~current_saved /\ current_saved') => Saver
      ]_vars

\* ------------------------------------------------------------------------
\* Regions that are skipped or fail (C8, C9, C10)
\* ------------------------------------------------------------------------

\* C8: a region whose minimum-area rectangle is below the size floor keeps
\* its points, and when tight_box returns the undo log holds no record of it.
C8_SmallRectangleLeavesNoRecord ==
    [][ /\ \A o \in TightOutcomes :
              (TbVisit(o, FALSE) /\ o.kind = "rect" /\ TooSmall(o)) =>
                  polygons' = polygons
        /\ (TbReturn /\ tb_rect.kind = "rect" /\ TooSmall(tb_rect)) =>
              \A k \in 1..Len(changed_poly') : changed_poly'[k].p # tb_p
      ]_vars

\* C9: a region that encloses no inner contour, when cv2 does not raise for
\* it, keeps its points, and when tight_box returns the undo log holds no
\* record of it.
C9_EmptyRegionLeavesNoRecord ==
    [][ /\ TbVisit(EmptyOutcome, FALSE) => polygons' = polygons
        /\ (TbReturn /\ tb_rect.kind = "empty") =>
              \A k \in 1..Len(changed_poly') : changed_poly'[k].p # tb_p
      ]_vars

\* C10: when tight_box ends on the failure of one region, no selected region
\* with valid content is left behind it in the list, unvisited.
C10_FailureSparesOtherRegions ==
    [][ \A o \in TightOutcomes :
          TbVisit(o, TRUE) =>
              ~ \E n \in Indices :
                    /\ n > tb_idx
                    /\ polygons[n].select_poly
                    /\ polygons[n].polygon_id \in DOMAIN tb_plan
                    /\ ValidContent(tb_plan[polygons[n].polygon_id])
      ]_vars

\* ------------------------------------------------------------------------
\* Deleting the selected regions (C11)
\* ------------------------------------------------------------------------

\* The region is not selected.
NotSelected(p) == ~p.select_poly

\* C11: delete_selected leaves the regions that were not selected, in their
\* order, and no other region.
C11_DeleteLeavesUnselected ==
    [][ DeleteSelected => polygons' = SelectSeq(polygons, NotSelected) ]_vars

\* delete_selected has just removed two regions of three.
C11_Witness ==
    /\ last_call = [op |-> "delete_selected", n |-> 2]
    /\ Len(polygons) = 1

\* ------------------------------------------------------------------------
\* Zoom limits and rounding (C12, C13)
\* ------------------------------------------------------------------------

\* C12: the scale factor lies within [min_zoom, max_zoom] in every state.
C12_ScaleWithinLimits ==
    /\ min_zoom <= 10 * scale_factor
    /\ 10 * scale_factor <= max_zoom

\* round(v * s_j) for an integer v: the nearest integer, the even one of two
\* that are equally near (the product is exact then, j being 5 or 15).
MulRound(v, j) ==
    LET q == (v[2] * j) \div 10
        r == (v[2] * j) % 10
    IN  IF r < 5 THEN q
        ELSE IF r > 5 THEN q + 1
        ELSE IF q % 2 = 0 THEN q ELSE q + 1

\* C13: after a zoom every region's display points are its canonical points
\* times the scale factor, rounded to the nearest integer.
C13_ZoomRoundsDisplay ==
    [][ scale_factor' # scale_factor =>
          \A n \in 1..Len(polygons') :
              polygons'[n].pt_coords =
                  MapPts(polygons'[n].original_coords,
                         LAMBDA v : IntVal(MulRound(v, scale_factor')))
      ]_vars

\* ------------------------------------------------------------------------
\* Snapshot and merge (C14, C15, C16)
\* ------------------------------------------------------------------------

\* C14: a save of a session with no region returns the message that there is
\* nothing to save and leaves every snapshot file as it was.
C14_EmptySaveWritesNothing ==
    [][ (Saver /\ Len(polygons) = 0) =>
          /\ saving_path' = "nothing to save"
          /\ tmp_annotations' = tmp_annotations
      ]_vars

\* The last save found no region and returned the message.
C14_Witness ==
    /\ saving_path = "nothing to save"
    /\ export_lens = << 0, 0, 0 >>
    /\ Len(polygons) = 0

\* The images whose snapshot file holds at least one polygon.
NonEmptySnapshots ==
    { i \in 0..(NumImages - 1) :
          tmp_annotations[i].written /\ Len(tmp_annotations[i].polygons) > 0 }

\* C15: final_save writes to labels.json the entry of every image whose
\* snapshot file holds at least one polygon, with the content of that file,
\* and no entry for any other image.
C15_MergeTakesNonEmptySnapshots ==
    [][ \A save \in BOOLEAN, ann \in InitialAnnotations :
          (NextImg(save, ann) /\ curr_idx + 1 >= NumImages /\ tmp_labels_dir) =>
              /\ labels_json'.written
              /\ { e.img : e \in labels_json'.data } = NonEmptySnapshots
              /\ \A e \in labels_json'.data : e.content = tmp_annotations[e.img]
      ]_vars

\* labels.json holds the first image's entry and none for the last image,
\* whose snapshot file has no polygons.
C15_Witness ==
    /\ labels_json.written
    /\ { e.img : e \in labels_json.data } = {0}
    /\ tmp_annotations[NumImages - 1] = EmptySnapshot

C17_LogClearedOnNewImage ==
    [][ /\ curr_idx' # curr_idx => changed_poly' = <<>>
        /\ (DiscardTight /\ tight_box_cnv = "old") => current_saved' = current_saved
      ]_vars

\* C18: a discard leaves the undo log empty, and with no TightBox or an empty
\* log it leaves every region as it is.
C18_DiscardClearsLog ==
    [][ DiscardTight =>
          /\ changed_poly' = <<>>
          /\ (~tight_box_obj \/ changed_poly = <<>>) => polygons' = polygons
      ]_vars

\* discard_tight has just run for a TightBox whose log was empty, in a
\* session with regions.
C18_Witness ==
    /\ last_call = [op |-> "discard_tight", n |-> 0]
    /\ Len(polygons) > 0

\* ------------------------------------------------------------------------
\* Adding regions (C19)
\* ------------------------------------------------------------------------

\* C19: the regions auto-annotation adds have the predicted points as their
\* canonical points, and these times the scale factor, truncated, as their
\* display points.
C19_AddKeepsCanonical ==
    [][ \A pred \in Predictions :
          AutoAnnotate(pred) =>
              \A n \in 1..Len(pred) :
                  LET p == polygons'[Len(polygons) + n] IN
                      /\ p.original_coords = IntPts(pred[n])
                      /\ p.pt_coords =
                             MapPts(IntPts(pred[n]),
                                    LAMBDA v : IntVal(MulTrunc(v, scale_factor)))
      ]_vars

\* ------------------------------------------------------------------------
\* The end of the worker thread (C20)
\* ------------------------------------------------------------------------

\* C20: when the worker thread of make_tight ends, the buttons are enabled
\* and the progress bar is stopped and hidden.
C20_WorkerEndRestoresUi ==
    [][ (tb_thread = "worker" /\ tb_thread' # "worker") =>
          /\ buttons' = "normal"
          /\ ~progress_bar'
      ]_vars

\* ------------------------------------------------------------------------
\* The size test of tight_box (C28)
\* ------------------------------------------------------------------------

\* C28: a selected polygon under which the minimum-area rectangle is 4 wide
\* and 4 high is skipped: tight_box makes no update_point call for it.
C28_FourByFourIsSkipped ==
    [][ (tb_rect.kind = "rect" /\ tb_rect.size = << 4, 4 >>) => ~TbPoint ]_vars

\* C22: Go to Image with an entry that reads as an integer k from 1 to the
\* number of images makes image k the current one (curr_idx = k - 1); with any
\* other entry (k below 1, k above the number of images, not a number) it
\* shows the notice "Invalid image index" and leaves curr_idx, the regions,
\* the saved flag and the files as they are.
C22_JumpToValidIndexOnly ==
    [][ \A entry \in JumpEntries, save \in BOOLEAN, ann \in InitialAnnotations :
          JumpToImage(entry, save, ann) =>
             IF \E k \in 1..NumImages : Numerals[k + 2] = entry
             THEN \E k \in 1..NumImages : Numerals[k + 2] = entry /\ curr_idx' = k - 1
             ELSE /\ notice' = InvalidIndex
                  /\ UNCHANGED << curr_idx, prev_img_button, image_name, image_path, save_msgs, polygons, current_saved, scale_factor,
                                  next_id, disk_vars >> ]_vars

\* A jump back to the first image has happened in a session in which a load
\* found unsaved changes.
C22_Witness == curr_idx = 0 /\ notice = UnsavedChanges /\ events > 1

\* C30: while a region is drawn, a click records a point only if the drawing
\* mode is on and the click lies within the scaled image (from 0 to the
\* scaled width and from 0 to the scaled height); the DrawPoly has as many
\* point widgets as coordinates after every click and every right-click
\* removal; and a region is added exactly with the fourth recorded point, with
\* 4 points.
C30_DrawingRecordsFourPointsInBounds ==
    [][ /\ \A pt \in ClickPositions, k \in BOOLEAN :
             DrawPoint(pt, FALSE, k, <<>>) =>
                /\ drawing_polygon
                /\ 0 <= pt[1] /\ 10 * pt[1] <= img_width * scale_factor
                /\ 0 <= pt[2] /\ 10 * pt[2] <= img_height * scale_factor
        /\ drawing_obj'.held =>
                Len(drawing_obj'.points) = Len(drawing_obj'.pt_coords)
        /\ Len(polygons') > Len(polygons) =>
                /\ Len(drawing_obj.points) = NPts - 1
                /\ Len(polygons'[Len(polygons')].pt_coords) = NPts ]_vars

\* C29: a text typed into the label entry, or an entry picked in the type
\* menu, is stored in the region whose id is that of the region clicked last,
\* and only if that region is selected: the stored value is the text without
\* the whitespace around it, the session becomes unsaved and the Save button
\* is enabled.  In every other case the edit changes no region.  Whatever
\* the handler, a region's label or type changes only in the region clicked
\* last, and only if it was selected.
C29_EditGoesToLastSelected ==
    [][ LET hit == { n \in Indices : /\ polygons[n].polygon_id = last_selected_polygon
                                     /\ polygons[n].select_poly }
            stored(text) == IF text = " abc " THEN "abc" ELSE text
        IN  /\ \A text \in EnteredTexts :
                  SaveLabel(text) =>
                     IF hit # {}
                     THEN /\ polygons' = [n \in Indices |->
                                 IF n \in hit
                                 THEN [polygons[n] EXCEPT !.text = stored(text)]
                                 ELSE polygons[n]]
                          /\ ~current_saved'
                          /\ save_image_button' = "normal"
                     ELSE polygons' = polygons
            /\ \A option \in TypeOptions :
                  SaveType(option) =>
                     IF hit # {}
                     THEN /\ polygons' = [n \in Indices |->
                                 IF n \in hit
                                 THEN [polygons[n] EXCEPT !.poly_type = option]
                                 ELSE polygons[n]]
                          /\ ~current_saved'
                          /\ save_image_button' = "normal"
                     ELSE polygons' = polygons
            /\ \A n \in Indices, m \in 1..Len(polygons') :
                  ( /\ polygons[n].polygon_id = polygons'[m].polygon_id
                    /\ \/ polygons[n].text # polygons'[m].text
                       \/ polygons[n].poly_type # polygons'[m].poly_type )
                  => /\ polygons[n].polygon_id = last_selected_polygon'
                     /\ polygons[n].select_poly ]_vars

\* The region clicked last is selected and carries a typed label and a picked
\* type, with the session unsaved, while another selected region has kept
\* its own.
C29_Witness ==
    \E n, m \in Indices :
        /\ polygons[n].polygon_id = last_selected_polygon
        /\ polygons[n].select_poly
        /\ polygons[n].text = "abc"
        /\ polygons[n].poly_type = "header"
        /\ m # n
        /\ polygons[m].select_poly
        /\ polygons[m].text = ""
        /\ polygons[m].poly_type = DefaultType
        /\ ~current_saved
        /\ save_image_button = "normal"

\* C27: the scale factor is greater than zero in every reachable state: when
\* the session is made and after every sequence of zoom keys, whatever the
\* two zoom limits in the environment are.
C27_ScaleFactorPositive == scale_factor > 0

\* Zooming out has reached the floor of 0.1 under a lower limit below it.
C27_Witness ==
    /\ scale_factor = zoom_floor
    /\ environ.DOCTR_LABELER_MIN_ZOOM < 10 * zoom_floor

\* C21: an image is opened with the polygons, labels and types of its
\* snapshot file when the file exists and can be read, whatever
\* pre_annotations.json holds; otherwise with the polygons of its entry of
\* pre_annotations.json when that file can be read; otherwise with no
\* polygon.  A file that cannot be read does not stop the opening, and
\* drawing_polygon is false when the loading has ended.
C21_LoadPrefersSnapshot ==
    [][ \A ann \in InitialAnnotations :
          ( /\ \/ NextImg(FALSE, ann)
               \/ \E entry \in JumpEntries : JumpToImage(entry, FALSE, ann)
            /\ notice' \notin { InvalidIndex, DoneWithImages } )
          => LET file == tmp_annotations[curr_idx'] IN
                /\ ~drawing_polygon'
                /\ IF prior.tmp = "readable" /\ file.written
                   THEN /\ Len(polygons') = Len(file.polygons)
                        /\ \A n \in 1..Len(polygons') :
                              /\ polygons'[n].original_coords = file.polygons[n]
                              /\ polygons'[n].text = file.labels[n]
                              /\ polygons'[n].poly_type = file.types[n]
                   ELSE IF prior.pre = "readable"
                   THEN /\ Len(polygons') = Len(ann)
                        /\ \A n \in 1..Len(polygons') :
                              /\ polygons'[n].original_coords = IntPts(ann[n])
                              /\ polygons'[n].text = ""
                              /\ polygons'[n].poly_type = DefaultType
                   ELSE polygons' = <<>> ]_vars

\* The second image was opened with its entry of pre_annotations.json, its
\* snapshot file being one that cannot be read.
C21_Witness ==
    /\ curr_idx = 1
    /\ prior = [tmp |-> "unreadable", pre |-> "readable"]
    /\ tmp_annotations[1] = SnapshotB
    /\ Len(polygons) = 1
    /\ polygons[1].original_coords = IntPts(QuadA)
    /\ ~drawing_polygon

\* The words of an export in the order of the pages, blocks and lines, each
\* with the dimensions of its page.
RECURSIVE Concat(_)
Concat(lists) == IF lists = <<>> THEN <<>> ELSE Head(lists) \o Concat(Tail(lists))

WordsOf(res) ==
    Concat([p \in 1..Len(res.pages) |->
      Concat([b \in 1..Len(res.pages[p].blocks) |->
        Concat([l \in 1..Len(res.pages[p].blocks[b].lines) |->
          [k \in 1..Len(res.pages[p].blocks[b].lines[l].words) |->
             [word |-> res.pages[p].blocks[b].lines[l].words[k],
              shape |-> res.pages[p].dimensions]]])])])

\* The words of the export whose score is above the threshold, in order.
Confident ==
    SelectSeq(WordsOf(json_res),
              LAMBDA item : item.word.objectness_score > objectness_threshold)

\* c is the integer on one side of the product of n / 8 and dim, or the
\* product itself.
Scaled(c, n, dim) ==
    /\ rel_unit * c > n * dim - rel_unit
    /\ rel_unit * c < n * dim + rel_unit

\* polygon has the four corners of the box, or the four points of the
\* polygon, of geom, with x scaled by the width and y by the height of shape.
AbsoluteOf(polygon, geom, shape) ==
    LET h == shape[1]
        w == shape[2]
        at(i) == IF Len(geom) = 4 THEN geom[i]
                 ELSE << geom[IF i \in {1, 4} THEN 1 ELSE 2][1],
                         geom[IF i \in {1, 2} THEN 1 ELSE 2][2] >>
    IN  /\ Len(polygon) = NPts
        /\ \A i \in 1..NPts :
              /\ Scaled(polygon[i][1], at(i)[1], w)
              /\ Scaled(polygon[i][2], at(i)[2], h)

\* C23: predict returns the words whose objectness score is above the
\* threshold and no other, in the order of the prediction; the lists polygons
\* and texts have the same length, and polygons[i] is the geometry of the
\* word whose value is texts[i].
C23_PredictKeepsConfidentWords ==
    predicted.returned =>
        /\ Len(predicted.polygons) = Len(predicted.texts)
        /\ Len(predicted.texts) = Len(Confident)
        /\ \A i \in 1..Len(Confident) :
              /\ predicted.texts[i] = Confident[i].word.value
              /\ AbsoluteOf(predicted.polygons[i], Confident[i].word.geometry,
                            Confident[i].shape)

\* With the threshold 0.8 and the scores 0.9, 0.5 and 0.81 the first and the
\* third word were returned.
C23_Witness ==
    /\ predicted.returned
    /\ objectness_threshold = high_threshold
    /\ Len(WordsOf(json_res)) = 3
    /\ [k \in 1..3 |-> WordsOf(json_res)[k].word.objectness_score] = << 90, 50, 81 >>
    /\ predicted.texts = << "w1", "w3" >>

\* C24: _to_absolute returns four points of integers for a box of two points
\* and for a polygon of four: the corners (xmin, ymin), (xmax, ymin),
\* (xmax, ymax), (xmin, ymax) of the box, and the points of the polygon one by
\* one, x multiplied by the width and y by the height of the page.
C24_ToAbsoluteScalesByWidthAndHeight ==
    predicted.returned =>
        \A i \in 1..Len(predicted.polygons) :
            /\ i <= Len(Confident)
            /\ Len(predicted.polygons[i]) = NPts
            /\ \A j \in 1..NPts : /\ predicted.polygons[i][j][1] \in Int
                                   /\ predicted.polygons[i][j][2] \in Int
            /\ LET geom == Confident[i].word.geometry
                   h == Confident[i].shape[1]
                   w == Confident[i].shape[2]
                   p == predicted.polygons[i]
               IN  IF Len(geom) = 2
                   THEN /\ p[1][1] = p[4][1] /\ p[2][1] = p[3][1]
                        /\ p[1][2] = p[2][2] /\ p[3][2] = p[4][2]
                        /\ Scaled(p[1][1], geom[1][1], w)
                        /\ Scaled(p[1][2], geom[1][2], h)
                        /\ Scaled(p[3][1], geom[2][1], w)
                        /\ Scaled(p[3][2], geom[2][2], h)
                   ELSE \A j \in 1..NPts :
                            /\ Scaled(p[j][1], geom[j][1], w)
                            /\ Scaled(p[j][2], geom[j][2], h)

\* A box and a polygon on pages of different sizes were converted.
C24_Witness ==
    /\ predicted.returned
    /\ Len(json_res.pages) = 2
    /\ Len(predicted.polygons) = 3
    /\ Confident[1].word.geometry = << <<1, 2>>, <<6, 7>> >>
    /\ predicted.polygons[1] = << <<2, 2>>, <<15, 2>>, <<15, 9>>, <<2, 9>> >>
    /\ Confident[2].word.geometry = << <<1, 1>>, <<7, 2>>, <<6, 7>>, <<3, 6>> >>
    /\ predicted.polygons[2] = << <<1, 1>>, <<7, 3>>, <<6, 10>>, <<3, 9>> >>

\* C25: prepare_data_folder raises FileNotFoundError for a data folder that
\* does not exist, and FileExistsError for a folder 'images' that exists
\* already; in both cases no file is processed and nothing is created or
\* written: the folder 'images' is as it was.
C25_PathErrorsFailFast ==
    [][ PrepareDataFolder =>
          /\ ~data_folder.exists =>
                /\ prepared'.raised = "FileNotFoundError"
                /\ prepared'.returned = "none"
                /\ save_folder' = save_folder
          /\ (data_folder.exists /\ save_folder.exists) =>
                /\ prepared'.raised = "FileExistsError"
                /\ prepared'.returned = "none"
                /\ save_folder' = save_folder ]_vars

\* FileExistsError was raised over a data folder with files to convert, and
\* the folder 'images' still holds the one image it held.
C25_Witness ==
    /\ prepared.raised = "FileExistsError"
    /\ Len(data_folder.files) > 0
    /\ data_folder.files[1].name = "file2.jpg"
    /\ save_folder = [exists |-> TRUE, images |-> { << "old", 1 >> }]

\* C26: in prepare_data_folder a file of an unsupported type, and a file
\* whose processing raises an exception, are skipped: every other file of a
\* supported type in the folder is converted, each page to an image in the
\* save folder, and the function returns the path of the save folder.
C26_BadFilesAreSkipped ==
    [][ (PrepareDataFolder /\ data_folder.exists /\ ~save_folder.exists) =>
          /\ prepared'.raised = "none"
          /\ prepared'.returned = "images"
          /\ save_folder'.exists
          /\ \A i \in 1..Len(data_folder.files) :
                LET file == data_folder.files[i] IN
                   /\ (file.ext \in { ".pdf", ".jpg", ".PNG" } /\ file.raises = "never")
                        => \A k \in 1..file.pages : << file.name, k >> \in save_folder'.images
                   /\ (file.ext = ".txt" \/ file.raises = "from_pdf")
                        => \A k \in 1..file.pages : << file.name, k >> \notin save_folder'.images
          /\ \A image \in save_folder'.images :
                \E i \in 1..Len(data_folder.files) : data_folder.files[i].name = image[1] ]_vars

\* The path was returned for a folder that lists a file of another type, a
\* PDF that cannot be read and then an image, and the image was converted.
C26_Witness ==
    /\ prepared.returned = "images"
    /\ Len(data_folder.files) = 3
    /\ data_folder.files[1].name = "unsupported.txt"
    /\ data_folder.files[2].name = "broken.pdf"
    /\ data_folder.files[3].name = "file2.jpg"
    /\ save_folder.images = { << "file2.jpg", 1 >> }

\* ------------------------------------------------------------------------
\* The Auto-Annotate button and the bulk add (C39, C40)
\* ------------------------------------------------------------------------

\* C39: the Auto-Annotate button is enabled only while the image shown has
\* no region.
C39_AutoAnnotateOnlyWhenEmpty ==
    auto_annotate_button = "normal" => Len(polygons) = 0

\* C40: the regions auto-annotation adds with draw_polys leave the canonical
\* points, the text and the type of every region already in the list as they
\* were, at every scale factor.
C40_BulkAddKeepsOthers ==
    [][ \A pred \in LatePredictions :
          AutoAnnotate(pred) =>
              \A n \in Indices :
                  /\ polygons'[n].original_coords = polygons[n].original_coords
                  /\ polygons'[n].text = polygons[n].text
                  /\ polygons'[n].poly_type = polygons[n].poly_type ]_vars

\* ------------------------------------------------------------------------
\* Selection (C31)
\* ------------------------------------------------------------------------

\* C31: select_all leaves every region selected and deselect_all leaves none
\* selected; select_polygon and deselect_poly change nothing when applied a
\* second time; the release of button 1 on a polygon turns its selection over
\* exactly when down_inside_poly was set, which it is only while the button
\* pressed inside this polygon is held, and the release always clears
\* down_inside_poly; no other polygon changes with the release.
C31_SelectionIsTwoState ==
    [][ /\ SelectAll => \A n \in 1..Len(polygons') : polygons'[n].select_poly
        /\ DeselectAll => \A n \in 1..Len(polygons') : ~polygons'[n].select_poly
        /\ \A n \in Indices :
              /\ select_polygon(select_polygon(polygons[n])) = select_polygon(polygons[n])
              /\ deselect_poly(deselect_poly(polygons[n])) = deselect_poly(polygons[n])
              /\ polygons[n].down_inside_poly => pressed_poly = polygons[n].polygon_id
        /\ ChkupPoly =>
              /\ Len(polygons') = Len(polygons)
              /\ \A n \in Indices :
                    /\ ~polygons'[n].down_inside_poly
                    /\ (polygons'[n].select_poly # polygons[n].select_poly)
                          <=> polygons[n].down_inside_poly ]_vars

\* The first region was selected by a press and a release inside it, the
\* only two events of the session.
C31_Witness ==
    /\ events = 2
    /\ pressed_poly = 0
    /\ Len(polygons) = 3
    /\ polygons[1].select_poly
    /\ ~polygons[2].select_poly
    /\ last_selected_polygon = polygons[1].polygon_id

\* ------------------------------------------------------------------------
\* Saving and re-opening (C34, C38)
\* ------------------------------------------------------------------------

\* The regions load_json makes when the image shown is opened again, in a
\* folder in which pre_annotations.json has no entry for it.
Reopened ==
    load_json(read_json(prior.tmp, tmp_annotations'[image_path], NoFile), <<>>, 1)

\* C34: when saver has run and left current_saved true, opening the image
\* again gives as many regions as the session has, with the same texts and
\* types in the same order; none when the session has none.
C34_SavedSessionReopensEqual ==
    [][ (Saver /\ current_saved') =>
          /\ Len(Reopened) = Len(polygons')
          /\ \A n \in 1..Len(polygons') :
                n <= Len(Reopened) =>
                   /\ Reopened[n].text = polygons'[n].text
                   /\ Reopened[n].poly_type = polygons'[n].poly_type ]_vars

\* C38: Next on the last image writes labels.json, whether or not a snapshot
\* was ever saved, and leaves curr_idx at the last image.
C38_FinalSaveAlwaysWrites ==
    [][ \A save \in BOOLEAN, ann \in InitialAnnotations :
          (NextImg(save, ann) /\ curr_idx + 1 >= NumImages) =>
              /\ labels_json'.written
              /\ curr_idx' = NumImages - 1 ]_vars

\* ------------------------------------------------------------------------
\* Moving between images (C32, C33, C36)
\* ------------------------------------------------------------------------

\* A step of one of the three handlers that move to an image.
Navigating ==
    \E ann \in NoAnnotations :
        \/ NextImgAsk(ann)
        \/ PreviousImg(ann)
        \/ \E entry \in JumpEntries : JumpAsk(entry, ann)

\* C32: Next, Prev and Go to Image leave the text and the type of every
\* region of the session they find as they are, selected or not, also when
\* the session stays open under the pop-up.
C32_NavigationKeepsLabels ==
    [][ (Navigating /\ image_path' = image_path /\ save_msgs' # save_msgs) =>
          /\ Len(polygons') = Len(polygons)
          /\ \A n \in Indices :
                /\ polygons'[n].text = polygons[n].text
                /\ polygons'[n].poly_type = polygons[n].poly_type ]_vars

\* C33: curr_idx stays within 0 .. len(images_in_dir) - 1 under Next, Prev
\* and Go to Image, and the Prev button is enabled only when curr_idx > 0.
C33_IndexInRange ==
    /\ curr_idx \in 0..(NumImages - 1)
    /\ prev_img_button = "normal" => curr_idx > 0

\* What a snapshot keeps of the regions: canonical points, text and type.
Kept(polys) ==
    [n \in 1..Len(polys) |->
        << polys[n].original_coords, polys[n].text, polys[n].poly_type >>]

\* The session differs from what opening its image again would give, or is
\* marked as not saved.
Unsaved ==
    \/ ~current_saved
    \/ Kept(polygons) # Kept(load_json(read_json(prior.tmp, tmp_file, NoFile), <<>>, 1))

\* C36: a move to another image from a session with unsaved changes opens
\* the pop-up and leaves the session open; Save writes the snapshot of the
\* image that is left and then opens the image at curr_idx; Dismiss writes
\* nothing and opens the image at curr_idx.
C36_UnsavedAsksBeforeLeaving ==
    [][ /\ (Navigating /\ Unsaved /\ curr_idx' # curr_idx /\ curr_idx' >= 0 - NumImages) =>
              /\ save_msgs' = save_msgs + 1
              /\ image_path' = image_path
              /\ Len(polygons') = Len(polygons)
        /\ \A ann \in NoAnnotations :
              /\ OnSave(ann) =>
                    /\ tmp_annotations' =
                          [tmp_annotations EXCEPT
                              ![image_path] = save_json(polygons, scale_factor, @)]
                    /\ image_path' = curr_idx'
                    /\ Kept(polygons') =
                          Kept(load_json(tmp_annotations'[image_path'], <<>>, 1))
              /\ OnDismiss(ann) =>
                    /\ tmp_annotations' = tmp_annotations
                    /\ image_path' = curr_idx' ]_vars

\* ------------------------------------------------------------------------
\* The undo log of make_tight (C37)
\* ------------------------------------------------------------------------

\* A session opened on an image with two saved regions.
InitTight ==
    /\ InitSession(Predictions)
    /\ export_lens = << 0, 0, 0 >>
    /\ NoPredict
    /\ NoPrepare
    /\ ReadablePrior

\* Selecting, make_tight with its thread, and discard_tight.
NextTight ==
    \/ \E n \in Indices : ClickPoly(n)
    \/ SelectAll
    \/ \E plan \in [SelectedIds(polygons) -> TightOutcomes] : MakeTight(plan)
    \/ CheckThread
    \/ DiscardTight
    \/ TightStep

SpecTight == InitTight /\ [][NextTight]_vars

\* C37: a discard_tight served by a TightBox gives every region that was
\* selected when make_tight was called last the display points it had at
\* that call, and leaves every other region, those refined by earlier calls
\* among them, as it is.
C37_DiscardUndoesLastCall ==
    [][ (DiscardTight /\ tight_box_obj) =>
          \A n \in Indices :
              LET id == polygons[n].polygon_id IN
                  IF id \in DOMAIN tb_selected
                  THEN polygons'[n].pt_coords = tb_selected[id].pt_coords
                  ELSE polygons'[n] = polygons[n] ]_vars

\* ------------------------------------------------------------------------
\* The name of the snapshot file (C35)
\* ------------------------------------------------------------------------

\* Folders of images: a name with two dots, two names that differ in their
\* extension only, and the usual names.
NameListings ==
    { [i \in 0..(NumImages - 1) |->
          IF i = 0 THEN first ELSE IF i = 1 THEN second ELSE ImagesInDir[i]] :
      << first, second >> \in { << << "a", "b", "png" >>, << "c", "png" >> >>,
                                << << "a", "png" >>, << "a", "jpg" >> >>,
                                << << "page1", "png" >>, << "page2", "png" >> >> } }

\* The first image of such a folder, opened with one region from
\* pre_annotations.json and no snapshot file yet.
InitNames ==
    /\ InitOpen(NameListings, { <<QuadA>> }, ZoomEnvs,
                { [i \in 0..(NumImages - 1) |-> NoFile] },
                { [tmp |-> "readable", pre |-> "readable"] })
    /\ export_lens = << 0, 0, 0 >>
    /\ NoPredict
    /\ NoPrepare

SpecNames == InitNames /\ [][NextNav]_vars

\* The snapshot file save_json has written for the image at position q, if
\* any.
SavedFor(images, files, keys, q) ==
    LET slot == file_slot(images, json_file_path(images[q])) IN
        IF keys[slot] = q THEN files[slot] ELSE NoFile

\* C35: after Control-s with regions in the session, load_json for the image
\* shown finds the file just written, and what it finds for every other
\* image of the folder is as before; an image that is opened gets the
\* regions of the snapshot file saved for it.
C35_SnapshotFoundByName ==
    [][ /\ (Saver /\ saving_path' = "path") =>
              /\ temp_annotations(images_in_dir, tmp_annotations', tmp_keys', image_path)
                    = save_json(polygons, scale_factor, NoFile)
              /\ \A q \in DOMAIN images_in_dir \ {image_path} :
                    temp_annotations(images_in_dir, tmp_annotations', tmp_keys', q)
                        = temp_annotations(images_in_dir, tmp_annotations, tmp_keys, q)
        /\ (image_path' # image_path
               /\ SavedFor(images_in_dir, tmp_annotations', tmp_keys', image_path').written) =>
              Kept(polygons') =
                  Kept(load_json(SavedFor(images_in_dir, tmp_annotations', tmp_keys',
                                          image_path'), <<>>, 1)) ]_vars


====
